---- MODULE Spec2Model ----
(***************************************************************************)
(* MindBridge backend: the check-in and passive-data services together     *)
(* with the HTTP routers that map their outcomes to error kinds.           *)
(*                                                                         *)
(* Time is a number of minutes on one reference clock: datetime.now() of   *)
(* the application and func.now() of the record store read the same clock. *)
(* A calendar date is the number of whole days of a timestamp.             *)
(*                                                                         *)
(* A request is the schema object the handler receives (DailyCheckinCreate,*)
(* PassiveDataCreate); the parsing of the request body that precedes the   *)
(* handler is not part of the model.  The free-form metadata of a passive  *)
(* data point takes no part in validation, duplicate detection or counting *)
(* and is left out of the records.                                         *)
(***************************************************************************)
EXTENDS Integers, Sequences, FiniteSets, TLC

VARIABLES now, uniqueIndex, checkins, reqs, points, result

vars == <<now, uniqueIndex, checkins, reqs, points, result>>

(***************************************************************************)
(* Bounds of the model.                                                    *)
(***************************************************************************)
MaxDay == 1
MaxCheckins == 3
MaxHistoryDays == 3
MaxPoints == 3
MaxBatch == 2
MaxMoodRows == 5
MaxAggPoints == 3
MaxSparseRows == 2
MaxSparsePoints == 1
MaxUpdateRows == 2
MaxMarkPoints == 2
MaxSharedRows == 3
MaxFloatRows == 6

(***************************************************************************)
(* Input domains.                                                          *)
(***************************************************************************)
Users == {1, 2}
Moods == {5, 7}
Procs == {1, 2}

\* None of a string-valued field, and None of a number-valued field (every
\* number of the model is >= 0)
NoneVal == "None"
Null == 0 - 1

\* the clock starts 366 days after the origin, so that a timestamp older
\* than 365 days is still a non-negative number of minutes
StartOfClock == 366 * 1440

\* the clock advances in steps of half a day
ClockStep == 1440 \div 2

(***************************************************************************)
(* Calendar.                                                               *)
(***************************************************************************)
Date(ts) == ts \div 1440

Max(a, b) == IF a >= b THEN a ELSE b

(***************************************************************************)
(* Record store: daily_checkins.                                           *)
(***************************************************************************)
\* filter(DailyCheckin.user_id == user_id): the rows of a user
CheckinsOfWrong(u) == DOMAIN checkins

CheckinsOf(u) == {i \in DOMAIN checkins : checkins[i].user_id = u}

\* create_checkin: the query for an existing check-in of today; first()
\* returns some matching row or None
ExistingCheckinWrong(u, today) ==
    {i \in DOMAIN checkins : checkins[i].user_id = u
                             /\ checkins[i].timestamp = now}

ExistingCheckin(u, today) ==
    {i \in DOMAIN checkins : checkins[i].user_id = u
                             /\ Date(checkins[i].timestamp) = today}

\* the unique index idx_daily_checkins_user_date on (user_id, DATE(timestamp))
ViolatesUserDate(row) ==
    \E i \in DOMAIN checkins : checkins[i].user_id = row.user_id
                               /\ Date(checkins[i].timestamp) = Date(row.timestamp)

\* the row that create_checkin adds; the store sets the id and the timestamp
NewCheckin(u, data) ==
    [checkin_id |-> Len(checkins) + 1, user_id |-> u, timestamp |-> now,
     mood_rating |-> data.mood_rating, mood_category |-> NoneVal,
     keywords |-> <<>>, energy_level |-> Null, stress_level |-> Null,
     sleep_quality |-> Null]

\* db.add + db.commit of a row: the commit fails with an IntegrityError when
\* the schema carries the unique index and the row violates it
CommitCheckin(row) ==
    IF uniqueIndex /\ ViolatesUserDate(row)
    THEN [raised |-> "IntegrityError", msg |-> "duplicate key value violates unique constraint",
          store |-> checkins]
    ELSE [raised |-> NoneVal, msg |-> "", store |-> Append(checkins, row)]

\* CheckinService.create_checkin, given the rows its query found
ServiceCreateCheckin(u, data, existing) ==
    IF existing # {}
    THEN [raised |-> "ValueError", msg |-> "User already has a check-in for today",
          store |-> checkins]
    ELSE CommitCheckin(NewCheckin(u, data))

\* messages for which the test  "already has a check-in" in str(e)  holds
AlreadyMessages == {"User already has a check-in for today"}

\* router create_checkin: the error kind the caller sees
RouterCreateErrorWrong(outcome) ==
    IF outcome.raised = NoneVal THEN NoneVal
    ELSE IF outcome.raised = "ValueError" THEN "VALIDATION_ERROR"
    ELSE "INTERNAL_SERVER_ERROR"

RouterCreateError(outcome) ==
    IF outcome.raised = NoneVal THEN NoneVal
    ELSE IF outcome.raised = "ValueError"
         THEN IF outcome.msg \in AlreadyMessages THEN "RESOURCE_CONFLICT"
              ELSE "VALIDATION_ERROR"
    ELSE "INTERNAL_SERVER_ERROR"

CheckinPayloads == [mood_rating : Moods]

\* DailyCheckinUpdate with exclude_unset: the supplied fields only
UpdatePayloads == {<<>>} \cup [mood_rating : Moods]

(***************************************************************************)
(* CheckinService.get_checkin_streak.                                      *)
(***************************************************************************)
\* the orders in which  order_by(timestamp.desc()).all()  can return the
\* check-ins of a user: rows with equal timestamps come in any order
RECURSIVE DescOrders(_)
DescOrders(S) ==
    IF S = {} THEN {<<>>}
    ELSE UNION {{<<m>> \o t : t \in DescOrders(S \ {m})}
                : m \in {i \in S : \A j \in S :
                            checkins[i].timestamp >= checkins[j].timestamp}}

OrderedDesc(u) == DescOrders(CheckinsOf(u))

\* the walk of the first loop from position i on: st is
\* [current_streak, streak_start_date, current_date]
RECURSIVE CurrentWalkWrong(_, _, _)
CurrentWalkWrong(rows, i, st) ==
    IF i > Len(rows) THEN st
    ELSE LET checkin_date == Date(checkins[rows[i]].timestamp)
         IN  IF checkin_date = st.current_date
             THEN CurrentWalkWrong(rows, i + 1,
                     [current_streak |-> st.current_streak + 1,
                      streak_start_date |-> IF st.current_streak + 1 = 1
                                            THEN checkin_date
                                            ELSE st.streak_start_date,
                      current_date |-> st.current_date - 1])
             ELSE CurrentWalkWrong(rows, i + 1,
                     [st EXCEPT !.current_date = checkin_date - 1])

RECURSIVE CurrentWalk(_, _, _)
CurrentWalk(rows, i, st) ==
    IF i > Len(rows) THEN st
    ELSE LET checkin_date == Date(checkins[rows[i]].timestamp)
         IN  IF checkin_date = st.current_date
             THEN CurrentWalk(rows, i + 1,
                     [current_streak |-> st.current_streak + 1,
                      streak_start_date |-> IF st.current_streak + 1 = 1
                                            THEN checkin_date
                                            ELSE st.streak_start_date,
                      current_date |-> st.current_date - 1])
             ELSE st

\* the second loop, over reversed(checkins), from position i down to 1: st is
\* [temp_streak, longest_streak, prev_date]
RECURSIVE LongestWalkWrong(_, _, _)
LongestWalkWrong(rows, i, st) ==
    IF i < 1 THEN st
    ELSE LET checkin_date == Date(checkins[rows[i]].timestamp)
         IN  IF st.prev_date = Null \/ checkin_date = st.prev_date + 1
             THEN LongestWalkWrong(rows, i - 1,
                     [temp_streak |-> st.temp_streak + 1,
                      longest_streak |-> Max(st.longest_streak, st.temp_streak + 1),
                      prev_date |-> checkin_date])
             ELSE LongestWalkWrong(rows, i - 1,
                     [temp_streak |-> 0,
                      longest_streak |-> st.longest_streak,
                      prev_date |-> checkin_date])

RECURSIVE LongestWalk(_, _, _)
LongestWalk(rows, i, st) ==
    IF i < 1 THEN st
    ELSE LET checkin_date == Date(checkins[rows[i]].timestamp)
         IN  IF st.prev_date = Null \/ checkin_date = st.prev_date + 1
             THEN LongestWalk(rows, i - 1,
                     [temp_streak |-> st.temp_streak + 1,
                      longest_streak |-> Max(st.longest_streak, st.temp_streak + 1),
                      prev_date |-> checkin_date])
             ELSE LongestWalk(rows, i - 1,
                     [temp_streak |-> 1,
                      longest_streak |-> st.longest_streak,
                      prev_date |-> checkin_date])

\* the CheckinStreak computed from the rows in the order the query gave them
StreakOf(rows) ==
    IF Len(rows) = 0
    THEN [current_streak |-> 0, longest_streak |-> 0, total_checkins |-> 0,
          streak_start_date |-> Null, days_since_last_checkin |-> 0]
    ELSE LET today == Date(now)
             cur == CurrentWalk(rows, 1,
                       [current_streak |-> 0, streak_start_date |-> Null,
                        current_date |-> today])
             lng == LongestWalk(rows, Len(rows),
                       [temp_streak |-> 0, longest_streak |-> 0,
                        prev_date |-> Null])
         IN  [current_streak |-> cur.current_streak,
              longest_streak |-> lng.longest_streak,
              total_checkins |-> Len(rows),
              streak_start_date |-> cur.streak_start_date,
              days_since_last_checkin |-> today - Date(checkins[rows[1]].timestamp)]

(***************************************************************************)
(* Initial state and the check-in operations, one call at a time.          *)
(***************************************************************************)
Init ==
    /\ now = StartOfClock
    /\ uniqueIndex \in BOOLEAN
    /\ checkins = <<>>
    /\ reqs = [p \in Procs |-> [pc |-> "idle"]]
    /\ points = <<>>
    /\ result = [op |-> "init"]

\* the clock advances
Tick ==
    /\ Date(now + ClockStep) <= Date(StartOfClock) + MaxDay
    /\ now' = now + ClockStep
    /\ result' = [op |-> "tick"]
    /\ UNCHANGED <<uniqueIndex, checkins, reqs, points>>

\* POST /api/v1/checkins: router create_checkin over CheckinService.create_checkin
CreateCheckin(u, data) ==
    /\ Len(checkins) < MaxCheckins
    /\ LET outcome == ServiceCreateCheckin(u, data, ExistingCheckin(u, Date(now)))
       IN  /\ checkins' = outcome.store
           /\ result' = [op |-> "create_checkin", user_id |-> u,
                         error |-> RouterCreateError(outcome)]
    /\ UNCHANGED <<now, uniqueIndex, reqs, points>>

\* mood_rating = Column(Float, nullable=False): the commit of a row without a
\* mood rating fails with an IntegrityError
ViolatesNotNull(row) == row.mood_rating = Null

\* setattr of the supplied fields on the row
ApplyUpdateWrong(row, data) ==
    [f \in DOMAIN row |-> IF f \in DOMAIN data THEN data[f]
                          ELSE IF f \in {"mood_rating", "energy_level"} THEN Null
                          ELSE row[f]]

ApplyUpdate(row, data) ==
    [f \in DOMAIN row |-> IF f \in DOMAIN data THEN data[f] ELSE row[f]]

\* CheckinService.update_checkin and the router's mapping of its outcome: the
\* store after the call and the error kind the caller sees
ServiceUpdateCheckin(id, u, data) ==
    LET found == {i \in DOMAIN checkins : checkins[i].checkin_id = id
                                          /\ checkins[i].user_id = u}
        updated == [i \in DOMAIN checkins |->
                       IF i \in found THEN ApplyUpdate(checkins[i], data)
                       ELSE checkins[i]]
    IN  IF found = {}
        THEN [store |-> checkins, error |-> "RESOURCE_NOT_FOUND"]
        ELSE IF \E i \in found : ViolatesNotNull(updated[i])
        THEN [store |-> checkins, error |-> "INTERNAL_SERVER_ERROR"]
        ELSE [store |-> updated, error |-> NoneVal]

\* PUT /api/v1/checkins/{checkin_id}: router update_checkin over
\* CheckinService.update_checkin
UpdateCheckin(id, u, data) ==
    /\ checkins' = ServiceUpdateCheckin(id, u, data).store
    /\ result' = [op |-> "update_checkin", user_id |-> u,
                  error |-> ServiceUpdateCheckin(id, u, data).error]
    /\ UNCHANGED <<now, uniqueIndex, reqs, points>>

\* GET /api/v1/checkins/streak: CheckinService.get_checkin_streak
GetCheckinStreak(u) ==
    /\ \E rows \in OrderedDesc(u) :
          result' = [op |-> "get_checkin_streak", user_id |-> u,
                     streak |-> StreakOf(rows)]
    /\ UNCHANGED <<now, uniqueIndex, checkins, reqs, points>>

Next ==
    \/ Tick
    \/ \E u \in Users, data \in CheckinPayloads : CreateCheckin(u, data)
    \/ \E id \in 1..MaxCheckins, u \in Users, data \in UpdatePayloads :
          UpdateCheckin(id, u, data)

Spec == Init /\ [][Next]_vars

(***************************************************************************)
(* update_checkin over stored check-ins of both users; a request supplies  *)
(* any of mood_rating and energy_level, each with a value or with null.    *)
(***************************************************************************)
UpdateFields == {"mood_rating", "energy_level"}

\* DailyCheckinUpdate with exclude_unset: the supplied fields
FieldUpdates == UNION {[D -> {7, Null}] : D \in SUBSET UpdateFields}

\* stored check-ins with ids 1, 2, ..., one per day, each of some user
UpdateStores(max) ==
    UNION {{[i \in 1..n |->
                [checkin_id |-> i, user_id |-> owner[i],
                 timestamp |-> (Date(StartOfClock) - n + i) * 1440,
                 mood_rating |-> 5, energy_level |-> Null]]
            : owner \in [1..n -> Users]} : n \in 1..max}

InitUpdate ==
    /\ now = StartOfClock + ClockStep
    /\ uniqueIndex = TRUE
    /\ checkins \in UpdateStores(MaxUpdateRows)
    /\ reqs = [p \in Procs |-> [pc |-> "idle"]]
    /\ points = <<>>
    /\ result = [op |-> "init"]

\* the same handler, its result carrying the request
UpdateRequest(id, u, data) ==
    /\ checkins' = ServiceUpdateCheckin(id, u, data).store
    /\ result' = [op |-> "update_checkin", user_id |-> u,
                  checkin_id |-> id, data |-> data,
                  error |-> ServiceUpdateCheckin(id, u, data).error]
    /\ UNCHANGED <<now, uniqueIndex, reqs, points>>

NextUpdate ==
    \E id \in 1..(MaxUpdateRows + 1), u \in Users, data \in FieldUpdates :
        UpdateRequest(id, u, data)

SpecUpdate == InitUpdate /\ [][NextUpdate]_vars

(***************************************************************************)
(* Two create_checkin requests in flight at once: each request runs the    *)
(* query of CheckinService.create_checkin in one step and the rest of the  *)
(* handler (add, commit, the router's mapping) in a later step.            *)
(***************************************************************************)
\* lines 51-58 of create_checkin for request p
RaceCheck(p, u, data) ==
    /\ reqs[p].pc = "idle"
    /\ reqs' = [reqs EXCEPT ![p] =
                   [pc |-> "checked", user_id |-> u, data |-> data,
                    today |-> Date(now),
                    existing |-> ExistingCheckin(u, Date(now))]]
    /\ result' = [op |-> "create_checkin_query", user_id |-> u]
    /\ UNCHANGED <<now, uniqueIndex, checkins, points>>

\* lines 60-82 of create_checkin for request p, and the router's except clause
RaceInsert(p) ==
    /\ reqs[p].pc = "checked"
    /\ LET r == reqs[p]
           outcome == ServiceCreateCheckin(r.user_id, r.data, r.existing)
       IN  /\ checkins' = outcome.store
           /\ reqs' = [reqs EXCEPT ![p] =
                          [pc |-> "done", user_id |-> r.user_id, today |-> r.today,
                           existing |-> r.existing, inserted_on |-> Date(now),
                           error |-> RouterCreateError(outcome)]]
           /\ result' = [op |-> "create_checkin", user_id |-> r.user_id,
                         error |-> RouterCreateError(outcome)]
    /\ UNCHANGED <<now, uniqueIndex, points>>

NextRace ==
    \/ Tick
    \/ \E p \in Procs, u \in Users, data \in CheckinPayloads : RaceCheck(p, u, data)
    \/ \E p \in Procs : RaceInsert(p)

SpecRace == Init /\ [][NextRace]_vars

(***************************************************************************)
(* get_checkin_streak over every check-in history of a bounded number of   *)
(* days: the store holds at most one check-in per user and day, created in *)
(* the order of their timestamps, none of them later than the clock.       *)
(***************************************************************************)
HistoryDays == Date(StartOfClock) .. (Date(StartOfClock) + MaxHistoryDays)

\* the days of S in ascending order
DaysAscending(S) ==
    CHOOSE s \in [1..Cardinality(S) -> S] :
        \A i, j \in 1..Cardinality(S) : i < j => s[i] < s[j]

\* the rows of user u with a check-in on each day of S, at the minute slot[d]
\* of day d, in the order of their creation
History(u, S, slot) ==
    LET days == DaysAscending(S)
    IN  [i \in 1..Cardinality(S) |->
            [checkin_id |-> i, user_id |-> u,
             timestamp |-> days[i] * 1440 + slot[days[i]],
             mood_rating |-> 5]]

InitStreak ==
    /\ now = (Date(StartOfClock) + MaxHistoryDays) * 1440 + ClockStep
    /\ uniqueIndex \in BOOLEAN
    /\ \E u \in Users, S \in SUBSET HistoryDays :
          \E slot \in [S -> {0, ClockStep}], other \in SUBSET (Users \ {u}) :
             LET mine == History(u, S, slot)
                 rest == IF other = {} THEN <<>>
                         ELSE <<[checkin_id |-> Len(mine) + 1,
                                 user_id |-> CHOOSE v \in other : TRUE,
                                 timestamp |-> now, mood_rating |-> 7]>>
             IN  checkins = mine \o rest
    /\ reqs = [p \in Procs |-> [pc |-> "idle"]]
    /\ points = <<>>
    /\ result = [op |-> "init"]

NextStreak == \E u \in Users : GetCheckinStreak(u)

SpecStreak == InitStreak /\ [][NextStreak]_vars

(***************************************************************************)
(* CheckinService.get_mood_analytics and _calculate_correlations.          *)
(* Ratings are whole numbers; means and correlations are compared exactly, *)
(* as fractions, where the code compares floats.                           *)
(***************************************************************************)
AnalyticsPeriods == {"daily", "weekly", "monthly"}

\* the length in days of the window of a period: timedelta(days=7),
\* timedelta(weeks=4), timedelta(days=90)
WindowDays(period) ==
    IF period = "daily" THEN 7 ELSE IF period = "weekly" THEN 4 * 7 ELSE 90

\* the orders in which the query of get_mood_analytics can return the rows of
\* user u with start_date <= timestamp <= end_date, order_by(timestamp.asc()):
\* rows with equal timestamps come in any order
RECURSIVE AscOrders(_)
AscOrders(S) ==
    IF S = {} THEN {<<>>}
    ELSE UNION {{<<m>> \o t : t \in AscOrders(S \ {m})}
                : m \in {i \in S : \A j \in S :
                            checkins[i].timestamp <= checkins[j].timestamp}}

OrderedAscWrong(u, start_date, end_date) ==
    AscOrders({i \in CheckinsOf(u) : checkins[i].timestamp <= end_date})

OrderedAsc(u, start_date, end_date) ==
    AscOrders({i \in CheckinsOf(u) : /\ checkins[i].timestamp >= start_date
                                     /\ checkins[i].timestamp <= end_date})

RECURSIVE SumSeq(_)
SumSeq(xs) == IF xs = <<>> THEN 0 ELSE Head(xs) + SumSeq(Tail(xs))

Min(a, b) == IF a <= b THEN a ELSE b

RECURSIVE MinSeq(_)
MinSeq(xs) == IF Len(xs) = 1 THEN xs[1] ELSE Min(Head(xs), MinSeq(Tail(xs)))

RECURSIVE MaxSeq(_)
MaxSeq(xs) == IF Len(xs) = 1 THEN xs[1] ELSE Max(Head(xs), MaxSeq(Tail(xs)))

\* trend_direction of the ordered ratings:  second_avg > first_avg + 0.5  is
\* 2 * (sum2 * n1 - sum1 * n2) > n1 * n2
TrendDirectionWrong(mood_ratings) ==
    IF Len(mood_ratings) < 2 THEN "stable"
    ELSE LET half == Len(mood_ratings) \div 2
             first_half == SubSeq(mood_ratings, 1, half)
             second_half == SubSeq(mood_ratings, half + 1, Len(mood_ratings))
             diff == 2 * (SumSeq(second_half) * Len(first_half)
                          - SumSeq(first_half) * Len(second_half))
             unit == Len(first_half) * Len(second_half)
         IN  IF diff >= unit THEN "improving"
             ELSE IF diff <= 0 - unit THEN "declining"
             ELSE "stable"

TrendDirection(mood_ratings) ==
    IF Len(mood_ratings) < 2 THEN "stable"
    ELSE LET half == Len(mood_ratings) \div 2
             first_half == SubSeq(mood_ratings, 1, half)
             second_half == SubSeq(mood_ratings, half + 1, Len(mood_ratings))
             diff == 2 * (SumSeq(second_half) * Len(first_half)
                          - SumSeq(first_half) * Len(second_half))
             unit == Len(first_half) * Len(second_half)
         IN  IF diff > unit THEN "improving"
             ELSE IF diff < 0 - unit THEN "declining"
             ELSE "stable"

\* checkin.energy_level or 5.0
OrFive(v) == IF v = Null \/ v = 0 THEN 5 ELSE v

\* simple_correlation(x, y) on whole-number ratings, as the fraction
\* num / sqrt(den2), both scaled by n * n; the code returns 0.0 when the
\* denominator is 0.  On the whole-number histories of MoodHistories the
\* float computation decides the thresholds as this fraction does;
\* FloatCorrelation below computes it in binary64 for any rating
SimpleCorrelation(x, y) ==
    LET n == Len(x)
        dx == [i \in 1..n |-> n * x[i] - SumSeq(x)]
        dy == [i \in 1..n |-> n * y[i] - SumSeq(y)]
    IN  [num |-> SumSeq([i \in 1..n |-> dx[i] * dy[i]]),
         den2 |-> SumSeq([i \in 1..n |-> dx[i] * dx[i]])
                  * SumSeq([i \in 1..n |-> dy[i] * dy[i]])]

\* correlation > 0.3  and  correlation < -0.3
Above03(c) == c.den2 # 0 /\ c.num > 0 /\ 100 * c.num * c.num > 9 * c.den2
Below03(c) == c.den2 # 0 /\ c.num < 0 /\ 100 * c.num * c.num > 9 * c.den2

\* the three correlations that _calculate_correlations computes
Correlations(rows) ==
    LET col(f) == [i \in 1..Len(rows) |-> OrFive(checkins[rows[i]][f])]
        mood_data == [i \in 1..Len(rows) |-> checkins[rows[i]].mood_rating]
    IN  [mood_energy |-> SimpleCorrelation(mood_data, col("energy_level")),
         mood_stress |-> SimpleCorrelation(mood_data, col("stress_level")),
         mood_sleep |-> SimpleCorrelation(mood_data, col("sleep_quality"))]

\* the insights of given correlations: a set of <<key, text>>
InsightsOfWrong(correlations) ==
    (IF Above03(correlations.mood_energy)
     THEN {<<"energy", "Your mood tends to be higher when your energy levels are good">>}
     ELSE IF Below03(correlations.mood_energy)
     THEN {<<"energy", "Your mood tends to be lower when your energy levels are low">>}
     ELSE {})
    \cup (IF Below03(correlations.mood_stress) \/ Above03(correlations.mood_stress)
          THEN {<<"stress", "Higher stress levels appear to negatively impact your mood">>}
          ELSE {})
    \cup (IF Above03(correlations.mood_sleep)
          THEN {<<"sleep", "Good sleep quality seems to positively influence your mood">>}
          ELSE {})

InsightsOf(correlations) ==
    (IF Above03(correlations.mood_energy)
     THEN {<<"energy", "Your mood tends to be higher when your energy levels are good">>}
     ELSE IF Below03(correlations.mood_energy)
     THEN {<<"energy", "Your mood tends to be lower when your energy levels are low">>}
     ELSE {})
    \cup (IF Below03(correlations.mood_stress)
          THEN {<<"stress", "Higher stress levels appear to negatively impact your mood">>}
          ELSE {})
    \cup (IF Above03(correlations.mood_sleep)
          THEN {<<"sleep", "Good sleep quality seems to positively influence your mood">>}
          ELSE {})

\* _calculate_correlations
CalculateCorrelationsWrong(rows) ==
    IF Len(rows) < 4 THEN {} ELSE InsightsOf(Correlations(rows))

CalculateCorrelations(rows) ==
    IF Len(rows) < 5 THEN {} ELSE InsightsOf(Correlations(rows))

\* keyword_frequency: the number of occurrences of each keyword
KeywordFrequency(rows) ==
    LET occ == {<<i, k>> \in (1..Len(rows)) \X (1..2) :
                   k <= Len(checkins[rows[i]].keywords)}
        words == {checkins[rows[o[1]]].keywords[o[2]] : o \in occ}
    IN  {<<w, Cardinality({o \in occ : checkins[rows[o[1]]].keywords[o[2]] = w})>>
         : w \in words}

\* max(set(categories), key=categories.count) if categories else None: max
\* returns the first element of maximal count in the iteration order of the
\* set, and the iteration order of a set of strings depends on the hash seed
\* of the process, so the value is any of the categories of maximal count
MostCommonCategory(rows) ==
    LET categories == {i \in 1..Len(rows) : checkins[rows[i]].mood_category # NoneVal}
        count(c) == Cardinality({i \in categories : checkins[rows[i]].mood_category = c})
        names == {checkins[rows[i]].mood_category : i \in categories}
    IN  IF categories = {} THEN {NoneVal}
        ELSE {c \in names : \A d \in names : count(d) <= count(c)}

\* the MoodAnalytics computed from the rows the query returned, for a most
\* common category c
MoodAnalyticsOf(period, rows, c) ==
    IF Len(rows) = 0
    THEN [period |-> period, average_mood |-> [num |-> 0, den |-> 1],
          mood_range |-> [min |-> 0, max |-> 0],
          most_common_category |-> NoneVal,
          trend_direction |-> "stable", trend_data |-> <<>>,
          keyword_frequency |-> {}, correlation_insights |-> {}]
    ELSE LET mood_ratings == [i \in 1..Len(rows) |-> checkins[rows[i]].mood_rating]
         IN  [period |-> period,
              average_mood |-> [num |-> SumSeq(mood_ratings), den |-> Len(mood_ratings)],
              mood_range |-> [min |-> MinSeq(mood_ratings), max |-> MaxSeq(mood_ratings)],
              most_common_category |-> c,
              trend_direction |-> TrendDirection(mood_ratings),
              trend_data |-> [i \in 1..Len(rows) |->
                                [date |-> Date(checkins[rows[i]].timestamp),
                                 mood_rating |-> checkins[rows[i]].mood_rating,
                                 energy_level |-> checkins[rows[i]].energy_level,
                                 stress_level |-> checkins[rows[i]].stress_level,
                                 sleep_quality |-> checkins[rows[i]].sleep_quality]],
              keyword_frequency |-> KeywordFrequency(rows),
              correlation_insights |-> CalculateCorrelations(rows)]

\* GET /api/v1/checkins/analytics: CheckinService.get_mood_analytics
GetMoodAnalytics(u, period) ==
    /\ \E rows \in OrderedAsc(u, now - WindowDays(period) * 1440, now) :
          \E c \in MostCommonCategory(rows) :
             result' = [op |-> "get_mood_analytics", user_id |-> u,
                        analytics |-> MoodAnalyticsOf(period, rows, c)]
    /\ UNCHANGED <<now, uniqueIndex, checkins, reqs, points>>

\* the mood analytics of stored histories: user 1 has n check-ins on
\* consecutive days, the last one `offset` days before today; each optional
\* metric follows one pattern over the history
AnalyticsMoods == {5, 6}
MetricPatterns == {"none", "same", "opposite", "alternate"}
HistoryOffsets == {0, 5, 100}

\* one metric is recorded and the other two are missing, or all three are
\* recorded and follow the same pattern
PatternChoices ==
    {pat \in [energy : MetricPatterns, stress : MetricPatterns,
              sleep : MetricPatterns] :
        \/ Cardinality({f \in {"energy", "stress", "sleep"} : pat[f] # "none"}) <= 1
        \/ pat.energy = pat.stress /\ pat.stress = pat.sleep}

MetricOf(pattern, i, mood) ==
    IF pattern = "none" THEN Null
    ELSE IF pattern = "same" THEN mood
    ELSE IF pattern = "opposite" THEN 11 - mood
    ELSE IF i % 2 = 1 THEN 4 ELSE 6

\* the category of the i-th check-in: the first is calm, a mood of 6 is happy,
\* the others carry none
CategoryOf(i, mood) ==
    IF i = 1 THEN "calm" ELSE IF mood = 6 THEN "happy" ELSE NoneVal

KeywordsOf(i, mood) ==
    IF i = 1 THEN <<"calm", "tired">> ELSE IF mood = 6 THEN <<"calm">> ELSE <<>>

MoodHistory(n, moods, pat, offset) ==
    [i \in 1..n |->
        [checkin_id |-> i, user_id |-> 1,
         timestamp |-> (Date(now) - offset - (n - i)) * 1440,
         mood_rating |-> moods[i],
         mood_category |-> CategoryOf(i, moods[i]),
         energy_level |-> MetricOf(pat.energy, i, moods[i]),
         stress_level |-> MetricOf(pat.stress, i, moods[i]),
         sleep_quality |-> MetricOf(pat.sleep, i, moods[i]),
         keywords |-> KeywordsOf(i, moods[i])]]

\* the histories of at most max check-ins; MoodHistory reads the clock
MoodHistories(max) ==
    UNION {{MoodHistory(n, moods, pat, offset) :
                moods \in [1..n -> AnalyticsMoods], pat \in PatternChoices,
                offset \in HistoryOffsets} : n \in 0..max}

InitMood ==
    /\ now = StartOfClock + ClockStep
    /\ uniqueIndex = TRUE
    /\ checkins \in MoodHistories(MaxMoodRows)
    /\ reqs = [p \in Procs |-> [pc |-> "idle"]]
    /\ points = <<>>
    /\ result = [op |-> "init"]

NextMood == \E u \in Users, period \in AnalyticsPeriods : GetMoodAnalytics(u, period)

SpecMood == InitMood /\ [][NextMood]_vars

(***************************************************************************)
(* Record store: passive_data_points, and PassiveDataService.              *)
(***************************************************************************)
DataTypes == {"heart_rate", "step_count"}
Sources == {"Fitbit", "HealthKit"}

\* the (user, data type, source) triples of the requests
Keys == {<<1, "heart_rate", "Fitbit">>, <<2, "heart_rate", "Fitbit">>,
         <<1, "step_count", "HealthKit">>}

\* JSON numbers: an int and a float of the same magnitude differ in their
\* JSON text
Values == {[isfloat |-> FALSE, num |-> 70], [isfloat |-> TRUE, num |-> 70],
           [isfloat |-> FALSE, num |-> 80]}

\* json.dumps of a number: "70" for the int, "70.0" for the float
JsonDumps(v) == IF v.isfloat THEN <<v.num, ".", 0>> ELSE <<v.num>>

DuplicateWindow == 5
MinutesPerYear == 365 * 1440

\* quality scores in tenths: 0.0 .. 1.0 is 0 .. 10
DefaultQuality == 10

ValidTimestamps == {Null, StartOfClock - 1, StartOfClock - 6}

\* the records of well-formed requests; the float is sent for heart rates of
\* Fitbit, without a timestamp, and step counts are 70, without a timestamp
ValidPayloads ==
    {p \in [data_type : DataTypes, value : Values, source : Sources,
            timestamp : ValidTimestamps, quality_score : {Null}] :
        /\ p.value.isfloat => (p.data_type = "heart_rate" /\ p.source = "Fitbit"
                               /\ p.timestamp = Null)
        /\ p.data_type = "step_count" => (p.value.num = 70 /\ p.timestamp = Null)}

\* records that validate_data_point refuses: a quality score of 1.5, a
\* timestamp one minute ahead of the clock, one older than 365 days
InvalidPayloads ==
    [data_type : {"step_count"}, value : {[isfloat |-> FALSE, num |-> 70]},
     source : {"HealthKit"},
     timestamp : {Null, StartOfClock + 1, StartOfClock - MinutesPerYear - 1},
     quality_score : {Null, 15}]
    \ ValidPayloads

Payloads == ValidPayloads \cup InvalidPayloads

\* PassiveDataService.validate_data_point: the list of error messages
ValidateDataPointWrong(p) ==
    (IF p.data_type \notin DataTypes THEN <<"Invalid data type">> ELSE <<>>)
    \o (IF p.source \notin Sources THEN <<"Invalid source">> ELSE <<>>)
    \o (IF p.quality_score # Null /\ ~(0 <= p.quality_score /\ p.quality_score <= 10)
        THEN <<"Quality score must be between 0.0 and 1.0">> ELSE <<>>)
    \o (IF p.timestamp # Null /\ p.timestamp < now - MinutesPerYear
        THEN <<"Timestamp cannot be more than 1 year in the past">> ELSE <<>>)

ValidateDataPoint(p) ==
    (IF p.data_type \notin DataTypes THEN <<"Invalid data type">> ELSE <<>>)
    \o (IF p.source \notin Sources THEN <<"Invalid source">> ELSE <<>>)
    \o (IF p.quality_score # Null /\ ~(0 <= p.quality_score /\ p.quality_score <= 10)
        THEN <<"Quality score must be between 0.0 and 1.0">> ELSE <<>>)
    \o (IF p.timestamp # Null /\ p.timestamp > now
        THEN <<"Timestamp cannot be in the future">> ELSE <<>>)
    \o (IF p.timestamp # Null /\ p.timestamp < now - MinutesPerYear
        THEN <<"Timestamp cannot be more than 1 year in the past">> ELSE <<>>)

\* _create_data_hash and _create_data_hash_from_db: the md5 of the JSON text
\* of {data_type, source, value} with sorted keys, taken as that text
CreateDataHash(data_type, value, source) ==
    <<data_type, source, JsonDumps(value)>>

\* data_point.timestamp or datetime.now()
TimestampOrNow(p) == IF p.timestamp = Null THEN now ELSE p.timestamp

\* the rows the query of _is_duplicate matches
WindowRows(u, p) ==
    {i \in DOMAIN points :
        /\ points[i].user_id = u
        /\ points[i].data_type = p.data_type
        /\ points[i].source = p.source
        /\ points[i].timestamp >= TimestampOrNow(p) - DuplicateWindow
        /\ points[i].timestamp <= TimestampOrNow(p) + DuplicateWindow}

\* _is_duplicate: the values it can return; first() returns one matching row,
\* and the query has no ORDER BY, so any of them
IsDuplicateWrong(u, p) ==
    IF WindowRows(u, p) = {} THEN {FALSE} ELSE {TRUE}

IsDuplicate(u, p) ==
    IF WindowRows(u, p) = {} THEN {FALSE}
    ELSE {CreateDataHash(p.data_type, p.value, p.source)
            = CreateDataHash(points[i].data_type, points[i].value, points[i].source)
          : i \in WindowRows(u, p)}

\* quality_score=data_point.quality_score or 1.0
QualityOrDefault(q) == IF q = Null \/ q = 0 THEN DefaultQuality ELSE q

\* the row built from a request; the store gives the id on commit
NewPoint(id, u, p) ==
    [data_point_id |-> id, user_id |-> u, data_type |-> p.data_type,
     value |-> p.value, source |-> p.source, timestamp |-> TimestampOrNow(p),
     quality_score |-> QualityOrDefault(p.quality_score), processed |-> FALSE]

\* router ingest_data_point: every ValueError becomes a ValidationException
RouterIngestError(raised) ==
    IF raised = NoneVal THEN NoneVal
    ELSE IF raised = "ValueError" THEN "VALIDATION_ERROR"
    ELSE "INTERNAL_SERVER_ERROR"

\* POST /api/v1/passive-data: router ingest_data_point over
\* PassiveDataService.ingest_data_point
IngestDataPoint(u, p) ==
    /\ Len(points) < MaxPoints
    /\ LET validation_errors == ValidateDataPoint(p)
       IN  IF validation_errors # <<>>
           THEN /\ points' = points
                /\ result' = [op |-> "ingest", user_id |-> u, payload |-> p,
                              error |-> RouterIngestError("ValueError"),
                              message |-> <<"Validation failed">> \o validation_errors]
           ELSE \E dup \in IsDuplicate(u, p) :
                   IF dup
                   THEN /\ points' = points
                        /\ result' = [op |-> "ingest", user_id |-> u, payload |-> p,
                                      error |-> RouterIngestError("ValueError"),
                                      message |-> <<"Duplicate data point detected">>]
                   ELSE /\ points' = Append(points, NewPoint(Len(points) + 1, u, p))
                        /\ result' = [op |-> "ingest", user_id |-> u, payload |-> p,
                                      error |-> RouterIngestError(NoneVal),
                                      message |-> <<>>]
    /\ UNCHANGED <<now, uniqueIndex, checkins, reqs>>

\* what the loop of bulk_ingest can do with one item: validation, then the
\* duplicate check against the store (the rows built so far are not yet
\* added to the session, and the session does not autoflush)
ItemOutcomes(u, p) ==
    IF ValidateDataPoint(p) # <<>>
    THEN {[created |-> FALSE, msg |-> ValidateDataPoint(p)]}
    ELSE {IF dup THEN [created |-> FALSE, msg |-> <<"Duplicate data point">>]
                 ELSE [created |-> TRUE, msg |-> <<>>]
          : dup \in IsDuplicate(u, p)}

\* the loop of bulk_ingest from item i on: acc is [created_points, errors],
\* the rows still without ids; the result is the set of final values of acc
RECURSIVE BulkLoopWrong(_, _, _, _)
BulkLoopWrong(u, batch, i, acc) ==
    IF i > Len(batch) THEN {acc}
    ELSE UNION {IF o.created
                THEN BulkLoopWrong(u, batch, i + 1,
                        [acc EXCEPT !.created_points = Append(@, batch[i])])
                ELSE {[acc EXCEPT !.errors = Append(@, <<i - 1, o.msg>>)]}
                : o \in ItemOutcomes(u, batch[i])}

RECURSIVE BulkLoop(_, _, _, _)
BulkLoop(u, batch, i, acc) ==
    IF i > Len(batch) THEN {acc}
    ELSE UNION {IF o.created
                THEN BulkLoop(u, batch, i + 1,
                        [acc EXCEPT !.created_points = Append(@, batch[i])])
                ELSE BulkLoop(u, batch, i + 1,
                        [acc EXCEPT !.errors = Append(@, <<i - 1, o.msg>>)])
                : o \in ItemOutcomes(u, batch[i])}

\* add_all + commit: the rows get consecutive ids
CommitPoints(u, created_points) ==
    points \o [k \in 1..Len(created_points) |->
                  NewPoint(Len(points) + k, u, created_points[k])]

\* router bulk_ingest_data: the BulkIngestResponse built from the list that
\* bulk_ingest returns
BulkIngestResponse(batch, created) ==
    [success_count |-> Len(created),
     error_count |-> Len(batch) - Len(created),
     total_count |-> Len(batch),
     created_ids |-> [k \in 1..Len(created) |-> created[k].data_point_id],
     processing_async |-> FALSE]

\* the items of bulk requests
BulkItems ==
    {p \in ValidPayloads : /\ p.data_type = "heart_rate" /\ p.source = "Fitbit"
                           /\ ~p.value.isfloat
                           /\ (p.value.num = 70) = (p.timestamp = Null)
                           /\ p.timestamp # StartOfClock - 6}
    \cup {p \in InvalidPayloads : /\ p.timestamp # StartOfClock - MinutesPerYear - 1
                                  /\ (p.timestamp = Null) # (p.quality_score = Null)}

Batches == UNION {[1..n -> BulkItems] : n \in 1..MaxBatch}

\* POST /api/v1/passive-data/bulk: router bulk_ingest_data over
\* PassiveDataService.bulk_ingest (process_async left at its default, False)
BulkIngest(u, batch) ==
    /\ Len(points) + Len(batch) <= MaxPoints
    /\ \E acc \in BulkLoop(u, batch, 1, [created_points |-> <<>>, errors |-> <<>>]) :
          /\ points' = CommitPoints(u, acc.created_points)
          /\ LET created == SubSeq(points', Len(points) + 1, Len(points'))
             IN  result' = [op |-> "bulk_ingest", user_id |-> u, batch |-> batch,
                            errors |-> acc.errors,
                            returned |-> created,
                            error |-> NoneVal,
                            response |-> BulkIngestResponse(batch, created)]
    /\ UNCHANGED <<now, uniqueIndex, checkins, reqs>>

KeyAllowed(u, p) == <<u, p.data_type, p.source>> \in Keys

NextIngest ==
    \/ \E u \in Users, p \in Payloads : KeyAllowed(u, p) /\ IngestDataPoint(u, p)
    \/ \E u \in Users, batch \in Batches :
          /\ \A i \in DOMAIN batch : KeyAllowed(u, batch[i])
          /\ BulkIngest(u, batch)

InitIngest ==
    /\ now = StartOfClock
    /\ uniqueIndex = TRUE
    /\ checkins = <<>>
    /\ reqs = [p \in Procs |-> [pc |-> "idle"]]
    /\ points = <<>>
    /\ result = [op |-> "init"]

SpecIngest == InitIngest /\ [][NextIngest]_vars

\* ingest and bulk ingest of heart rates that carry a quality score: none,
\* 0.0, 0.5 or 1.0 (in tenths)
QualityScores == {Null, 0, 5, 10}

QualityPayloads ==
    [data_type : {"heart_rate"}, value : {v \in Values : ~v.isfloat},
     source : {"Fitbit"}, timestamp : {Null}, quality_score : QualityScores]

QualityBatches == UNION {[1..n -> QualityPayloads] : n \in 1..MaxBatch}

NextQuality ==
    \/ \E u \in Users, p \in QualityPayloads : IngestDataPoint(u, p)
    \/ \E u \in Users, batch \in QualityBatches : BulkIngest(u, batch)

SpecQuality == InitIngest /\ [][NextQuality]_vars

(***************************************************************************)
(* PassiveDataService.aggregate_data.                                      *)
(* The origin of the clock is Monday 2024-01-01 00:00, so StartOfClock is  *)
(* Wednesday 2025-01-01 00:00.                                             *)
(***************************************************************************)
AggregationPeriods == {"hourly", "daily", "weekly", "monthly"}

\* datetime.weekday(): Monday is 0
Weekday(ts) == Date(ts) % 7

\* the lengths of the months from January 2024 to March 2025
MonthLengths == <<31, 29, 31, 30, 31, 30, 31, 31, 30, 31, 30, 31, 31, 28, 31>>

\* the day number of the first day of the k-th month
MonthStarts ==
    [k \in 1..(Len(MonthLengths) + 1) |-> SumSeq(SubSeq(MonthLengths, 1, k - 1))]

MonthStart(k) == MonthStarts[k]

\* strftime("%Y-%m"): the year and the month of a timestamp
MonthOf ==
    [d \in 0..(MonthStarts[Len(MonthLengths) + 1] - 1) |->
        CHOOSE m \in DOMAIN MonthLengths :
            MonthStarts[m] <= d /\ d < MonthStarts[m] + MonthLengths[m]]

YearMonth(ts) ==
    LET k == MonthOf[Date(ts)]
    IN  <<2024 + ((k - 1) \div 12), ((k - 1) % 12) + 1>>

\* strptime(key + "-01", "%Y-%m-%d"): midnight of the first day of a month
FirstOfMonth(year, month) == MonthStart((year - 2024) * 12 + month) * 1440

\* the grouping key of a timestamp
GroupKeyWrong(period, ts) ==
    IF period = "hourly" THEN <<Date(ts), (ts % 1440) \div 60>>
    ELSE IF period = "daily" THEN <<Date(ts)>>
    ELSE IF period = "weekly" THEN <<Date(ts - ((Weekday(ts) + 1) % 7) * 1440)>>
    ELSE YearMonth(ts)

GroupKey(period, ts) ==
    IF period = "hourly" THEN <<Date(ts), (ts % 1440) \div 60>>
    ELSE IF period = "daily" THEN <<Date(ts)>>
    ELSE IF period = "weekly" THEN <<Date(ts - Weekday(ts) * 1440)>>
    ELSE YearMonth(ts)

\* period_start and period_end of a key
PeriodStart(period, key) ==
    IF period = "hourly" THEN key[1] * 1440 + key[2] * 60
    ELSE IF period \in {"daily", "weekly"} THEN key[1] * 1440
    ELSE FirstOfMonth(key[1], key[2])

PeriodEnd(period, key) ==
    IF period = "hourly" THEN PeriodStart(period, key) + 60
    ELSE IF period = "daily" THEN PeriodStart(period, key) + 1440
    ELSE IF period = "weekly" THEN PeriodStart(period, key) + 7 * 1440
    ELSE IF key[2] = 12 THEN FirstOfMonth(key[1] + 1, 1)
    ELSE FirstOfMonth(key[1], key[2] + 1)

\* the default start of the range: 1, 30, 90 or 365 days before its end
DefaultStart(period, end_date) ==
    end_date - 1440 * (IF period = "hourly" THEN 1
                       ELSE IF period = "daily" THEN 30
                       ELSE IF period = "weekly" THEN 90 ELSE 365)

\* get_data_points(user_id, data_type, start_date, end_date): the rows read
DataPointsRead(u, data_type, start_date, end_date) ==
    {i \in DOMAIN points : /\ points[i].user_id = u
                           /\ points[i].data_type = data_type
                           /\ points[i].timestamp >= start_date
                           /\ points[i].timestamp <= end_date}

\* PassiveDataPoint.get_numeric_value of a numeric value
NumericValue(v) == v.num

RECURSIVE SumOver(_, _)
SumOver(S, f) ==
    IF S = {} THEN 0
    ELSE LET i == CHOOSE j \in S : TRUE IN f[i] + SumOver(S \ {i}, f)

\* the reduction of the values of a bucket, as a fraction
ReduceWrong(data_type, rows) ==
    LET val == [i \in rows |-> NumericValue(points[i].value)]
    IN  [num |-> SumOver(rows, val), den |-> Cardinality(rows)]

Reduce(data_type, rows) ==
    LET val == [i \in rows |-> NumericValue(points[i].value)]
    IN  IF data_type \in {"step_count", "notification_count", "message_count"}
        THEN [num |-> SumOver(rows, val), den |-> 1]
        ELSE [num |-> SumOver(rows, val), den |-> Cardinality(rows)]

\* the DataAggregation of one key
BucketOfWrong(data_type, period, key, rows) ==
    [data_type |-> data_type, period |-> period,
     start_date |-> PeriodStart(period, key),
     end_date |-> PeriodEnd(period, key),
     aggregated_value |-> Reduce(data_type, rows),
     count |-> Cardinality(rows),
     source_breakdown |-> {<<src, 1>> : src \in {points[i].source : i \in rows}}]

BucketOf(data_type, period, key, rows) ==
    [data_type |-> data_type, period |-> period,
     start_date |-> PeriodStart(period, key),
     end_date |-> PeriodEnd(period, key),
     aggregated_value |-> Reduce(data_type, rows),
     count |-> Cardinality(rows),
     source_breakdown |->
        {<<src, Cardinality({i \in rows : points[i].source = src})>>
         : src \in {points[i].source : i \in rows}}]

\* sorted(result, key=lambda x: x.start_date)
RECURSIVE SortedByStartWrong(_)
SortedByStartWrong(B) ==
    IF B = {} THEN <<>>
    ELSE LET b == CHOOSE x \in B : \A y \in B : x.start_date >= y.start_date
         IN  <<b>> \o SortedByStartWrong(B \ {b})

RECURSIVE SortedByStart(_)
SortedByStart(B) ==
    IF B = {} THEN <<>>
    ELSE LET b == CHOOSE x \in B : \A y \in B : x.start_date <= y.start_date
         IN  <<b>> \o SortedByStart(B \ {b})

\* PassiveDataService.aggregate_data at the clock reading `now`
AggregateDataOfWrong(u, data_type, period, start_date, end_date) ==
    LET end == IF end_date = Null THEN now ELSE end_date
        start == DefaultStart(period, now)
        rows == DataPointsRead(u, data_type, start, end)
        keys == {GroupKey(period, points[i].timestamp) : i \in rows}
    IN  SortedByStart({BucketOf(data_type, period, key,
                                {i \in rows : GroupKey(period, points[i].timestamp) = key})
                       : key \in keys})

AggregateDataOf(u, data_type, period, start_date, end_date) ==
    LET end == IF end_date = Null THEN now ELSE end_date
        start == IF start_date = Null THEN DefaultStart(period, end) ELSE start_date
        rows == DataPointsRead(u, data_type, start, end)
        keys == {GroupKey(period, points[i].timestamp) : i \in rows}
    IN  SortedByStart({BucketOf(data_type, period, key,
                                {i \in rows : GroupKey(period, points[i].timestamp) = key})
                       : key \in keys})

\* GET /api/v1/passive-data/aggregate/: router get_aggregated_data over
\* PassiveDataService.aggregate_data; the result keeps the outcome of the
\* call before it when that call had the same arguments
AggregateData(u, data_type, period, start_date, end_date) ==
    LET args == <<u, data_type, period, start_date, end_date>>
        again == result.op = "aggregate_data" /\ result.args = args
    IN  /\ result' = [op |-> "aggregate_data", args |-> args, user_id |-> u,
                      called_at |-> now,
                      buckets |-> AggregateDataOf(u, data_type, period,
                                                  start_date, end_date),
                      error |-> NoneVal,
                      repeated |-> again,
                      previous |-> IF again THEN result.buckets ELSE <<>>,
                      previous_at |-> IF again THEN result.called_at ELSE Null]
        /\ UNCHANGED <<now, uniqueIndex, checkins, reqs, points>>

\* the clock advances between two requests
TickAggregate ==
    /\ now < StartOfClock + 2 * ClockStep
    /\ now' = now + ClockStep
    /\ UNCHANGED <<uniqueIndex, checkins, reqs, points, result>>

\* the stored points of the aggregation runs: up to MaxAggPoints points out of
\* a pool of heart rates and step counts of user 1 at various distances from
\* the clock, and one heart rate of user 2
AggNow == StartOfClock + ClockStep

AggStamps == {AggNow, AggNow - 15, AggNow - 45, AggNow - 1440,
              AggNow - 3 * 1440, AggNow - 32 * 1440}

\* the kinds of points, and the stamps at which the pool holds each
AggKinds == {<<"heart_rate", 60, "Fitbit">>, <<"heart_rate", 80, "HealthKit">>,
             <<"step_count", 1000, "Fitbit">>}

KindStamps(k) ==
    IF k[2] = 60 THEN AggStamps
    ELSE IF k[2] = 80 THEN {AggNow - 15, AggNow - 45, AggNow - 1440}
    ELSE {AggNow - 15, AggNow - 45}

AggPool ==
    UNION {{[user_id |-> 1, data_type |-> k[1],
             value |-> [isfloat |-> FALSE, num |-> k[2]],
             source |-> k[3], timestamp |-> ts, quality_score |-> DefaultQuality,
             processed |-> FALSE] : ts \in KindStamps(k)} : k \in AggKinds}
    \cup {[user_id |-> 2, data_type |-> "heart_rate",
           value |-> [isfloat |-> FALSE, num |-> 60], source |-> "Fitbit",
           timestamp |-> AggNow, quality_score |-> DefaultQuality,
           processed |-> FALSE]}

\* the rows of a set of points, with ids in some fixed order
RECURSIVE RowsOf(_, _)
RowsOf(S, id) ==
    IF S = {} THEN <<>>
    ELSE LET r == CHOOSE x \in S : TRUE
         IN  <<[data_point_id |-> id] @@ r>> \o RowsOf(S \ {r}, id + 1)

\* the ranges of the requests: both ends omitted, the start omitted, both given
AggRanges == {<<Null, Null>>, <<Null, AggNow - 15>>,
              <<AggNow - 3 * 1440, AggNow - 15>>}

\* the stores of at most max points of the pool
PointStores(max) ==
    {RowsOf(S, 1) : S \in {T \in SUBSET AggPool : Cardinality(T) <= max}}

InitAggregate ==
    /\ now = AggNow
    /\ uniqueIndex = TRUE
    /\ checkins = <<>>
    /\ reqs = [p \in Procs |-> [pc |-> "idle"]]
    /\ points \in PointStores(MaxAggPoints)
    /\ result = [op |-> "init"]

\* a first request, or the request before it once more
AggregateCalls ==
    \/ \E u \in Users, data_type \in DataTypes, period \in AggregationPeriods,
          range \in AggRanges :
          /\ result.op # "aggregate_data"
          /\ AggregateData(u, data_type, period, range[1], range[2])
    \/ /\ result.op = "aggregate_data"
       /\ AggregateData(result.args[1], result.args[2], result.args[3],
                        result.args[4], result.args[5])

NextAggregate == AggregateCalls \/ TickAggregate

SpecAggregate == InitAggregate /\ [][NextAggregate]_vars

(***************************************************************************)
(* PassiveDataService.mark_processed over stored points.                   *)
(***************************************************************************)
\* query.filter(data_point_id.in_(ids)).update({processed: True}) and commit:
\* the store after the call and the number of rows the UPDATE matched
ServiceMarkProcessedWrong(ids) ==
    [store |-> [i \in DOMAIN points |-> [points[i] EXCEPT !.processed = TRUE]],
     updated_count |-> Cardinality({i \in DOMAIN points :
                                       points[i].data_point_id \in ids})]

ServiceMarkProcessed(ids) ==
    [store |-> [i \in DOMAIN points |->
                   IF points[i].data_point_id \in ids
                   THEN [points[i] EXCEPT !.processed = TRUE]
                   ELSE points[i]],
     updated_count |-> Cardinality({i \in DOMAIN points :
                                       points[i].data_point_id \in ids})]

\* PassiveDataService.mark_processed(data_point_ids)
MarkProcessed(ids) ==
    /\ points' = ServiceMarkProcessed(ids).store
    /\ result' = [op |-> "mark_processed", ids |-> ids,
                  updated_count |-> ServiceMarkProcessed(ids).updated_count,
                  error |-> NoneVal]
    /\ UNCHANGED <<now, uniqueIndex, checkins, reqs>>

\* POST /api/v1/passive-data/process/{data_point_id}: router
\* mark_data_processed over mark_processed([data_point_id]); the user id of
\* the request is not used
MarkDataProcessed(data_point_id, u) ==
    /\ points' = ServiceMarkProcessed({data_point_id}).store
    /\ result' = [op |-> "mark_processed", ids |-> {data_point_id},
                  updated_count |-> ServiceMarkProcessed({data_point_id}).updated_count,
                  error |-> IF ServiceMarkProcessed({data_point_id}).updated_count = 0
                            THEN "RESOURCE_NOT_FOUND" ELSE NoneVal]
    /\ UNCHANGED <<now, uniqueIndex, checkins, reqs>>

InitStored ==
    /\ now = AggNow
    /\ uniqueIndex = TRUE
    /\ checkins = <<>>
    /\ reqs = [p \in Procs |-> [pc |-> "idle"]]
    /\ points \in PointStores(MaxMarkPoints)
    /\ result = [op |-> "init"]

NextProcess ==
    \/ \E ids \in SUBSET (1..(MaxMarkPoints + 1)) : MarkProcessed(ids)
    \/ \E id \in 1..(MaxMarkPoints + 1), u \in Users : MarkDataProcessed(id, u)

SpecProcess == InitStored /\ [][NextProcess]_vars

(***************************************************************************)
(* The read of one point by id.                                            *)
(***************************************************************************)
\* get_data_points(user_id, limit=1, offset=0): the lists it can return; the
\* rows of the user come newest first, rows with equal timestamps in any
\* order, and the list is cut after the first row
FirstDataPoint(u) ==
    LET mine == {i \in DOMAIN points : points[i].user_id = u}
    IN  IF mine = {} THEN {<<>>}
        ELSE {<<i>> : i \in {j \in mine : \A k \in mine :
                                 points[j].timestamp >= points[k].timestamp}}

\* GET /api/v1/passive-data/{data_point_id}: router get_data_point
GetDataPoint(data_point_id, u) ==
    /\ \E data_points \in FirstDataPoint(u) :
          LET hits == {k \in DOMAIN data_points :
                          points[data_points[k]].data_point_id = data_point_id}
          IN  result' = IF hits = {}
                        THEN [op |-> "get_data_point", user_id |-> u,
                              data_point_id |-> data_point_id,
                              error |-> "RESOURCE_NOT_FOUND"]
                        ELSE [op |-> "get_data_point", user_id |-> u,
                              data_point_id |-> data_point_id,
                              error |-> NoneVal,
                              point |-> points[data_points[CHOOSE k \in hits :
                                                  \A h \in hits : k <= h]]]
    /\ UNCHANGED <<now, uniqueIndex, checkins, reqs, points>>

NextGet ==
    \E id \in 1..(MaxMarkPoints + 1), u \in Users : GetDataPoint(id, u)

SpecGet == InitStored /\ [][NextGet]_vars

(***************************************************************************)
(* The calls of both users, one at a time in any order: create and update  *)
(* of check-ins, ingest and bulk ingest of points, and the three analytics *)
(* reads.                                                                  *)
(***************************************************************************)
\* heart rates of 70 from Fitbit, without a timestamp
SharedPayloads ==
    {p \in ValidPayloads : /\ p.data_type = "heart_rate" /\ p.source = "Fitbit"
                           /\ ~p.value.isfloat /\ p.value.num = 70
                           /\ p.timestamp = Null}

SharedBatches == UNION {[1..n -> SharedPayloads] : n \in 1..MaxBatch}

InitShared ==
    /\ now = AggNow
    /\ uniqueIndex = TRUE
    /\ checkins = <<>>
    /\ reqs = [p \in Procs |-> [pc |-> "idle"]]
    /\ points = <<>>
    /\ result = [op |-> "init"]

\* the number of stored rows stays within MaxSharedRows
RoomFor(n) == Len(checkins) + Len(points) + n <= MaxSharedRows

NextShared ==
    \/ \E u \in Users, data \in CheckinPayloads : RoomFor(1) /\ CreateCheckin(u, data)
    \/ \E id \in 1..MaxSharedRows, u \in Users, data \in CheckinPayloads :
          id <= Len(checkins) + 1 /\ UpdateCheckin(id, u, data)
    \/ \E u \in Users, p \in SharedPayloads : RoomFor(1) /\ IngestDataPoint(u, p)
    \/ \E u \in Users, batch \in SharedBatches :
          RoomFor(Len(batch)) /\ BulkIngest(u, batch)
    \/ \E u \in Users : GetCheckinStreak(u)
    \/ \E u \in Users : GetMoodAnalytics(u, "daily")
    \/ \E u \in Users : AggregateData(u, "heart_rate", "daily", Null, Null)

SpecShared == InitShared /\ [][NextShared]_vars

\* the three analytics operations over stored check-ins or stored points
InitAnalytics ==
    /\ now = StartOfClock + ClockStep
    /\ uniqueIndex = TRUE
    /\ \/ checkins \in MoodHistories(MaxSparseRows) /\ points = <<>>
       \/ checkins = <<>> /\ points \in PointStores(MaxSparsePoints)
    /\ reqs = [p \in Procs |-> [pc |-> "idle"]]
    /\ result = [op |-> "init"]

NextAnalytics == NextStreak \/ NextMood \/ AggregateCalls

SpecAnalytics == InitAnalytics /\ [][NextAnalytics]_vars

(***************************************************************************)
(* Properties of check-in creation.                                        *)
(***************************************************************************)
HasCheckinOn(u, d) ==
    \E i \in DOMAIN checkins : checkins[i].user_id = u /\ Date(checkins[i].timestamp) = d

CountCheckinsOn(u, d) ==
    Cardinality({i \in DOMAIN checkins :
                    checkins[i].user_id = u /\ Date(checkins[i].timestamp) = d})

\* C1: with create_checkin and update_checkin called one at a time, the store
\* never holds two check-ins of the same user on the same calendar day
C1_OnePerUserDay ==
    \A i, j \in DOMAIN checkins :
        (i # j /\ checkins[i].user_id = checkins[j].user_id)
            => Date(checkins[i].timestamp) # Date(checkins[j].timestamp)

\* an update has succeeded on a store in which a user has check-ins on two days
C1_Witness ==
    /\ result.op = "update_checkin"
    /\ result.error = NoneVal
    /\ \E i, j \in DOMAIN checkins :
          /\ i # j
          /\ checkins[i].user_id = checkins[j].user_id
          /\ checkins[i].mood_rating # checkins[j].mood_rating

\* C2: a create_checkin for a user who already has a check-in on the current
\* calendar date ends as a conflict, never as a validation error, and leaves
\* the stored check-ins as they were
C2_SecondCreateConflicts ==
    [][(result'.op = "create_checkin" /\ HasCheckinOn(result'.user_id, Date(now)))
          => (result'.error = "RESOURCE_CONFLICT" /\ checkins' = checkins)]_vars

\* a create was refused as a conflict for a user who has a check-in today
C2_Witness ==
    /\ result.op = "create_checkin"
    /\ result.error = "RESOURCE_CONFLICT"
    /\ HasCheckinOn(result.user_id, Date(now))

\* C3: when two creates of one user on one day both run their existence check
\* before either inserts, exactly one succeeds, the other is reported as a
\* conflict, and the store holds one check-in of that user and day
C3_RaceResolvedAsConflict ==
    \A p, q \in Procs :
        (/\ p # q
         /\ reqs[p].pc = "done" /\ reqs[q].pc = "done"
         /\ reqs[p].user_id = reqs[q].user_id
         /\ reqs[p].today = reqs[q].today
         /\ reqs[p].inserted_on = reqs[p].today
         /\ reqs[q].inserted_on = reqs[q].today
         /\ reqs[p].existing = {} /\ reqs[q].existing = {})
        => /\ CountCheckinsOn(reqs[p].user_id, reqs[p].today) = 1
           /\ \/ reqs[p].error = NoneVal /\ reqs[q].error = "RESOURCE_CONFLICT"
              \/ reqs[q].error = NoneVal /\ reqs[p].error = "RESOURCE_CONFLICT"

(***************************************************************************)
(* Properties of the streak.                                               *)
(***************************************************************************)
\* the number of consecutive days, counted back from today, that have a
\* check-in of user u
RunEndingToday(u) ==
    LET today == Date(now)
    IN  CHOOSE k \in 0..(today + 1) :
           /\ \A j \in 0..(k - 1) : HasCheckinOn(u, today - j)
           /\ ~HasCheckinOn(u, today - k)

\* C10: over a history with at most one check-in per day, current_streak is
\* the largest k such that each of the k days today, today-1, ... has a
\* check-in; it is 0 when today has none
C10_CurrentStreak ==
    (result.op = "get_checkin_streak" /\ C1_OnePerUserDay)
        => result.streak.current_streak = RunEndingToday(result.user_id)

\* a streak of 0 was returned for a user with check-ins on the two days before
\* today and none today
C10_Witness ==
    /\ result.op = "get_checkin_streak"
    /\ result.streak.current_streak = 0
    /\ ~HasCheckinOn(result.user_id, Date(now))
    /\ HasCheckinOn(result.user_id, Date(now) - 1)
    /\ HasCheckinOn(result.user_id, Date(now) - 2)

\* the days of a run of k consecutive days with a check-in of user u, the
\* run starting on day d
IsRun(u, d, k) == \A j \in 0..(k - 1) : HasCheckinOn(u, d + j)

\* the length of the longest run of consecutive days with a check-in of u
LongestRun(u) ==
    LET days == {Date(checkins[i].timestamp) : i \in CheckinsOf(u)}
        lens == {k \in 1..Cardinality(days) : \E d \in days : IsRun(u, d, k)}
    IN  CHOOSE k \in lens : \A m \in lens : m <= k

\* C11: over a non-empty history with at most one check-in per day,
\* longest_streak is the length of the longest run of consecutive calendar
\* days that all have a check-in.
C11_LongestStreak ==
    (/\ result.op = "get_checkin_streak"
     /\ CheckinsOf(result.user_id) # {}
     /\ C1_OnePerUserDay)
        => result.streak.longest_streak = LongestRun(result.user_id)

\* a history with a single day, a gap, and then a run of two days
C11_Witness ==
    /\ result.op = "get_checkin_streak"
    /\ result.streak.longest_streak = 2
    /\ \E d \in HistoryDays :
          /\ HasCheckinOn(result.user_id, d)
          /\ ~HasCheckinOn(result.user_id, d + 1)
          /\ HasCheckinOn(result.user_id, d + 2)
          /\ HasCheckinOn(result.user_id, d + 3)

\* check-ins on exactly today, yesterday and the day before give a current
\* and a longest streak of 3
C11_ThreeDays ==
    (/\ result.op = "get_checkin_streak"
     /\ {Date(checkins[i].timestamp) : i \in CheckinsOf(result.user_id)}
           = {Date(now), Date(now) - 1, Date(now) - 2}
     /\ C1_OnePerUserDay)
        => /\ result.streak.longest_streak = 3
           /\ result.streak.current_streak = 3

\* ---- mood analytics ----

\* the check-ins of user u in the window of a period, and their indices in
\* ascending order of timestamp (the timestamps of one user are distinct)
InWindow(u, period) ==
    {i \in DOMAIN checkins : /\ checkins[i].user_id = u
                             /\ checkins[i].timestamp >= now - WindowDays(period) * 1440
                             /\ checkins[i].timestamp <= now}

RankedRows(u, period) ==
    LET W == InWindow(u, period)
    IN  [k \in 1..Cardinality(W) |->
            CHOOSE i \in W :
                Cardinality({j \in W : checkins[j].timestamp < checkins[i].timestamp})
                    = k - 1]

RankedRatings(u, period) ==
    LET rows == RankedRows(u, period)
    IN  [k \in DOMAIN rows |-> checkins[rows[k]].mood_rating]

\* twice the difference of the means of second and first, times the product of
\* their lengths
MeanGap(first, second) ==
    2 * SumSeq(second) * Len(first) - 2 * SumSeq(first) * Len(second)

MoodResult == result.op = "get_mood_analytics"

\* C13: over the n ratings of the window in timestamp order, trend_direction
\* is 'stable' when n < 2; otherwise, first being the first floor(n/2) ratings
\* and second the rest, 'improving' iff mean(second) > mean(first) + 0.5,
\* 'declining' iff mean(second) < mean(first) - 0.5, and 'stable' otherwise.
C13_TrendDirection ==
    MoodResult =>
        LET r == RankedRatings(result.user_id, result.analytics.period)
            n == Len(r)
            first == SubSeq(r, 1, n \div 2)
            second == SubSeq(r, n \div 2 + 1, n)
            half == Len(first) * Len(second)
            trend == result.analytics.trend_direction
        IN  IF n < 2 THEN trend = "stable"
            ELSE /\ trend = "improving" <=> MeanGap(first, second) > half
                 /\ trend = "declining" <=> MeanGap(first, second) < 0 - half
                 /\ trend = "stable" <=> /\ MeanGap(first, second) <= half
                                         /\ MeanGap(first, second) >= 0 - half

\* the means of the two halves differ by exactly 0.5 and the trend is stable
C13_Witness ==
    /\ MoodResult
    /\ result.analytics.trend_direction = "stable"
    /\ LET r == RankedRatings(result.user_id, result.analytics.period)
           n == Len(r)
           first == SubSeq(r, 1, n \div 2)
           second == SubSeq(r, n \div 2 + 1, n)
       IN  n >= 3 /\ MeanGap(first, second) = Len(first) * Len(second)

\* C14: correlation_insights is empty whenever the window holds fewer than 5
\* check-ins, whatever their ratings.
C14_FewCheckinsNoInsights ==
    (MoodResult
     /\ Cardinality(InWindow(result.user_id, result.analytics.period)) < 5)
        => result.analytics.correlation_insights = {}

\* four check-ins in the window whose energy levels follow the mood ratings
\* exactly, and no insight
C14_Witness ==
    /\ MoodResult
    /\ result.analytics.correlation_insights = {}
    /\ LET rows == RankedRows(result.user_id, result.analytics.period)
       IN  /\ Len(rows) = 4
           /\ Above03(Correlations(rows).mood_energy)

HasInsight(key) == \E p \in result.analytics.correlation_insights : p[1] = key

PositiveTexts ==
    {"Your mood tends to be higher when your energy levels are good",
     "Good sleep quality seems to positively influence your mood"}

\* the insight of key follows the sign of the correlation c: positive-phrased
\* above 0.3, negative-phrased below -0.3, absent in between
BothSigns(key, c) ==
    /\ Above03(c) => \E p \in result.analytics.correlation_insights :
                        p[1] = key /\ p[2] \in PositiveTexts
    /\ Below03(c) => \E p \in result.analytics.correlation_insights :
                        p[1] = key /\ p[2] \notin PositiveTexts
    /\ (~Above03(c) /\ ~Below03(c)) => ~HasInsight(key)

\* C15: with at least 5 check-ins in the window, the energy insight and the
\* sleep insight are each produced for both signs: positive-phrased when the
\* correlation is above 0.3, negative-phrased when it is below -0.3, and none
\* when it lies in [-0.3, 0.3].
C15_EnergyAndSleepBothSigns ==
    MoodResult =>
        LET rows == RankedRows(result.user_id, result.analytics.period)
        IN  Len(rows) >= 5 =>
                /\ BothSigns("energy", Correlations(rows).mood_energy)
                /\ BothSigns("sleep", Correlations(rows).mood_sleep)

\* C16: with at least 5 check-ins in the window, a stress insight is produced
\* if and only if the mood-stress correlation is strictly below -0.3.
C16_StressOnlyNegative ==
    MoodResult =>
        LET rows == RankedRows(result.user_id, result.analytics.period)
        IN  Len(rows) >= 5 =>
                (HasInsight("stress") <=> Below03(Correlations(rows).mood_stress))

\* five check-ins whose stress levels rise with the mood, and no stress insight
C16_Witness ==
    /\ MoodResult
    /\ ~HasInsight("stress")
    /\ LET rows == RankedRows(result.user_id, result.analytics.period)
       IN  Len(rows) >= 5 /\ Above03(Correlations(rows).mood_stress)

\* ---- passive data: duplicate detection, validation, bulk ingestion ----

\* the validation rules as the claims state them (quality in tenths)
InvalidInput(p) ==
    \/ p.quality_score # Null /\ (p.quality_score < 0 \/ p.quality_score > 10)
    \/ p.timestamp # Null /\ p.timestamp > now
    \/ p.timestamp # Null /\ now - p.timestamp > MinutesPerYear

Distance(a, b) == IF a >= b THEN a - b ELSE b - a

\* a stored point of the same user, data type and source, within five minutes
\* of the candidate (inclusive), with the candidate's value
SameValuedInWindow(u, p) ==
    \E i \in DOMAIN points :
        /\ points[i].user_id = u
        /\ points[i].data_type = p.data_type
        /\ points[i].source = p.source
        /\ Distance(points[i].timestamp, TimestampOrNow(p)) <= DuplicateWindow
        /\ points[i].value = p.value

\* the row is the one an accepted request p of user u leaves in the store
StoredFrom(row, u, p) ==
    /\ row.user_id = u
    /\ row.data_type = p.data_type
    /\ row.source = p.source
    /\ row.value = p.value
    /\ row.timestamp = TimestampOrNow(p)

DuplicateRejection(r) ==
    r.op = "ingest" /\ r.message = <<"Duplicate data point detected">>

\* C4: a valid candidate is rejected as a duplicate, and the store is left
\* alone, whenever some stored point of the same user, data type and source
\* within five minutes has the candidate's value, whatever else is stored in
\* that window.
C4_DuplicateAlwaysDetected ==
    [][(/\ result'.op = "ingest"
        /\ ~InvalidInput(result'.payload)
        /\ SameValuedInWindow(result'.user_id, result'.payload))
       => (DuplicateRejection(result') /\ points' = points)]_vars

\* C5: a request is rejected as a duplicate only if some stored point of the
\* same user, data type and source within five minutes has the same value; a
\* valid candidate with no such point is stored, so two points that differ
\* only in value and lie within five minutes are both ingested.
C5_DuplicateOnlyIfSameValue ==
    [][result'.op = "ingest" =>
        /\ DuplicateRejection(result')
              => SameValuedInWindow(result'.user_id, result'.payload)
        /\ (/\ ~InvalidInput(result'.payload)
            /\ ~SameValuedInWindow(result'.user_id, result'.payload))
              => /\ result'.error = NoneVal
                 /\ Len(points') = Len(points) + 1
                 /\ SubSeq(points', 1, Len(points)) = points
                 /\ StoredFrom(points'[Len(points')], result'.user_id,
                               result'.payload)]_vars

\* two stored points that differ only in value, within five minutes, the
\* second just ingested
C5_Witness ==
    /\ result.op = "ingest"
    /\ result.error = NoneVal
    /\ \E i \in DOMAIN points :
          /\ i < Len(points)
          /\ StoredFrom(points[Len(points)], result.user_id, result.payload)
          /\ points[i].user_id = result.user_id
          /\ points[i].data_type = result.payload.data_type
          /\ points[i].source = result.payload.source
          /\ Distance(points[i].timestamp, points[Len(points)].timestamp)
                <= DuplicateWindow
          /\ points[i].value.num # result.payload.value.num

\* C6: the error kind of a duplicate rejection differs from the error kind of
\* a validation failure.
C6_DuplicateErrorKindDistinct ==
    DuplicateRejection(result) => result.error # "VALIDATION_ERROR"

\* the rows a step added to the store
AddedRows == SubSeq(points', Len(points) + 1, Len(points'))

\* the entries of the loop's error list for item i of the batch (0-based)
ErrorEntries(r, i) == {k \in DOMAIN r.errors : r.errors[k][1] = i}

\* C7: a request that fails validation (quality outside 0..1, a timestamp in
\* the future, a timestamp more than 365 days old), alone or as an item of a
\* batch, is rejected with a non-empty list of errors and leaves no stored
\* point; the points stored before are untouched.
C7_InvalidRejected ==
    [][/\ (result'.op = "ingest" /\ InvalidInput(result'.payload))
            => /\ result'.error # NoneVal
               /\ Len(result'.message) > 1
               /\ points' = points
       /\ result'.op = "bulk_ingest"
            => /\ SubSeq(points', 1, Len(points)) = points
               /\ \A i \in DOMAIN result'.batch :
                     InvalidInput(result'.batch[i])
                        => /\ \E k \in ErrorEntries(result', i - 1) :
                                 result'.errors[k][2] # <<>>
                           /\ \A j \in DOMAIN AddedRows :
                                 ~StoredFrom(AddedRows[j], result'.user_id,
                                             result'.batch[i])]_vars

\* a batch with an invalid item and a stored one
C7_Witness ==
    /\ result.op = "bulk_ingest"
    /\ \E i \in DOMAIN result.batch : InvalidInput(result.batch[i])
    /\ result.response.success_count > 0

\* the items of a batch that certainly pass both checks: valid, and no stored
\* point of the same user, data type and source within five minutes
MustAccept(u, batch) ==
    {i \in DOMAIN batch : ~InvalidInput(batch[i]) /\ WindowRows(u, batch[i]) = {}}

\* C8: a bulk request never aborts at a rejected item: every item that passes
\* validation and the duplicate check is stored, the store grows by
\* success_count rows, and success_count + error_count = total_count = the
\* size of the batch.
C8_BulkPersistsPassingItems ==
    [][result'.op = "bulk_ingest" =>
        LET r == result'
        IN  /\ r.error = NoneVal
            /\ SubSeq(points', 1, Len(points)) = points
            /\ r.response.total_count = Len(r.batch)
            /\ r.response.success_count + r.response.error_count
                  = r.response.total_count
            /\ r.response.success_count = Len(points') - Len(points)
            /\ r.response.success_count >= Cardinality(MustAccept(r.user_id, r.batch))
            /\ \A i \in MustAccept(r.user_id, r.batch) :
                  \E j \in DOMAIN AddedRows :
                      StoredFrom(AddedRows[j], r.user_id, r.batch[i])
            /\ \A j \in DOMAIN AddedRows :
                  \E i \in DOMAIN r.batch :
                      /\ ~InvalidInput(r.batch[i])
                      /\ StoredFrom(AddedRows[j], r.user_id, r.batch[i])]_vars

\* a batch whose first item is rejected and whose second item is stored
C8_Witness ==
    /\ result.op = "bulk_ingest"
    /\ Len(result.batch) = 2
    /\ InvalidInput(result.batch[1])
    /\ result.response.success_count = 1
    /\ result.response.error_count = 1
    /\ StoredFrom(points[Len(points)], result.user_id, result.batch[2])

\* the error list a caller of the bulk request receives
ReturnedErrors(r) ==
    IF "errors" \in DOMAIN r.response THEN r.response.errors ELSE <<>>

\* C9: the bulk request returns to its caller, with the created records, a
\* list of errors with exactly one entry (item index, reason) for every
\* rejected item.
C9_BulkReturnsErrorList ==
    result.op = "bulk_ingest" =>
        /\ Len(ReturnedErrors(result)) = result.response.error_count
        /\ ReturnedErrors(result) = result.errors

\* ---- analytics over empty input ----

AggResult == result.op = "aggregate_data"

\* the range of a request: an omitted end is the clock at the call, an omitted
\* start lies 1, 30, 90 or 365 days before the end
RangeEnd(r) == IF r.args[5] = Null THEN r.called_at ELSE r.args[5]

RangeStart(r) ==
    IF r.args[4] # Null THEN r.args[4]
    ELSE RangeEnd(r) - 1440 * (CASE r.args[3] = "hourly" -> 1
                                 [] r.args[3] = "daily" -> 30
                                 [] r.args[3] = "weekly" -> 90
                                 [] OTHER -> 365)

\* the points that a request reads
PointsInRange(r) ==
    {i \in DOMAIN points : /\ points[i].user_id = r.args[1]
                           /\ points[i].data_type = r.args[2]
                           /\ points[i].timestamp >= RangeStart(r)
                           /\ points[i].timestamp <= RangeEnd(r)}

\* C12: for a user with no records in range no analytics operation raises:
\* get_checkin_streak returns zeros and a null streak_start_date,
\* get_mood_analytics returns average 0.0, trend 'stable', empty trend data,
\* keyword frequency and correlation insights, and aggregate_data returns an
\* empty sequence.
C12_EmptyInput ==
    /\ (result.op = "get_checkin_streak" /\ CheckinsOf(result.user_id) = {})
          => /\ result.streak.current_streak = 0
             /\ result.streak.longest_streak = 0
             /\ result.streak.total_checkins = 0
             /\ result.streak.streak_start_date = Null
    /\ (MoodResult /\ InWindow(result.user_id, result.analytics.period) = {})
          => /\ result.analytics.average_mood.num = 0
             /\ result.analytics.trend_direction = "stable"
             /\ result.analytics.trend_data = <<>>
             /\ result.analytics.keyword_frequency = {}
             /\ result.analytics.correlation_insights = {}
    /\ (AggResult /\ PointsInRange(result) = {})
          => result.buckets = <<>> /\ result.error = NoneVal

\* the mood analytics of a user whose check-ins all lie before the window
C12_Witness ==
    /\ MoodResult
    /\ CheckinsOf(result.user_id) # {}
    /\ InWindow(result.user_id, result.analytics.period) = {}
    /\ result.analytics.trend_data = <<>>

\* the points read whose timestamp lies in the window of bucket b
Contributing(r, b) ==
    {i \in PointsInRange(r) : /\ b.start_date <= points[i].timestamp
                              /\ points[i].timestamp < b.end_date}

RECURSIVE TotalOf(_)
TotalOf(S) ==
    IF S = {} THEN 0
    ELSE LET i == CHOOSE j \in S : TRUE IN points[i].value.num + TotalOf(S \ {i})

CountingTypes == {"step_count", "notification_count", "message_count"}

\* C17: in every bucket the reduced value is the sum of the bucket's values
\* for step_count, notification_count and message_count, and their mean for
\* every other data type.
C17_SumOrMean ==
    AggResult =>
        \A k \in DOMAIN result.buckets :
            LET b == result.buckets[k]
                C == Contributing(result, b)
                v == b.aggregated_value
            IN  /\ v.den > 0
                /\ IF result.args[2] \in CountingTypes
                   THEN v.num = TotalOf(C) * v.den
                   ELSE v.num * Cardinality(C) = TotalOf(C) * v.den

\* two step counts of 1000 in one bucket give 2000
C17_Witness ==
    /\ AggResult
    /\ result.args[2] = "step_count"
    /\ \E k \in DOMAIN result.buckets :
          /\ result.buckets[k].count = 2
          /\ result.buckets[k].aggregated_value = [num |-> 2000, den |-> 1]

\* C18: the buckets are strictly ascending by start, and every bucket has
\* count >= 1.
C18_AscendingNonEmpty ==
    AggResult =>
        /\ \A k \in DOMAIN result.buckets : result.buckets[k].count >= 1
        /\ \A k \in DOMAIN result.buckets :
              k < Len(result.buckets)
                 => result.buckets[k].start_date < result.buckets[k + 1].start_date

\* three buckets, while other windows of the range hold no point
C18_Witness ==
    /\ AggResult
    /\ result.args[3] = "daily"
    /\ Len(result.buckets) = 3
    /\ result.buckets[3].start_date - result.buckets[1].start_date > 2 * 1440

\* the window of a timestamp as the claim states it
FirstDays == {MonthStart(m) : m \in DOMAIN MonthLengths}

WindowStart(period, ts) ==
    IF period = "hourly" THEN ts - (ts % 60)
    ELSE IF period = "daily" THEN ts - (ts % 1440)
    ELSE IF period = "weekly"
    THEN 1440 * (CHOOSE d \in (Date(ts) - 6)..Date(ts) : d % 7 = 0)
    ELSE 1440 * (CHOOSE d \in FirstDays :
                    d <= Date(ts) /\ \A e \in FirstDays : e <= Date(ts) => e <= d)

WindowEnd(period, ts) ==
    IF period = "hourly" THEN WindowStart(period, ts) + 60
    ELSE IF period = "daily" THEN WindowStart(period, ts) + 1440
    ELSE IF period = "weekly" THEN WindowStart(period, ts) + 7 * 1440
    ELSE 1440 * (CHOOSE d \in FirstDays :
                    d > Date(ts) /\ \A e \in FirstDays : e > Date(ts) => d <= e)

\* C19: every point read contributes to exactly one bucket, whose window is
\* [start of the point's hour / day / Monday-based week / month, that start
\* plus one hour / one day / seven days / up to the first of the next month),
\* and contains the point's timestamp.
C19_OneBucketPerPoint ==
    AggResult =>
        /\ \A i \in PointsInRange(result) :
              LET ts == points[i].timestamp
                  mine == {k \in DOMAIN result.buckets :
                              /\ result.buckets[k].start_date <= ts
                              /\ ts < result.buckets[k].end_date}
              IN  /\ Cardinality(mine) = 1
                  /\ \A k \in mine :
                        /\ result.buckets[k].start_date
                              = WindowStart(result.args[3], ts)
                        /\ result.buckets[k].end_date = WindowEnd(result.args[3], ts)
        /\ \A k \in DOMAIN result.buckets :
              result.buckets[k].count
                 = Cardinality(Contributing(result, result.buckets[k]))

\* a point of Wednesday 2025-01-01 in the weekly bucket that starts on Monday
\* 2024-12-30
C19_Witness ==
    /\ AggResult
    /\ result.args[3] = "weekly"
    /\ \E i \in PointsInRange(result), k \in DOMAIN result.buckets :
          /\ Date(points[i].timestamp) = Date(StartOfClock)
          /\ result.buckets[k].start_date = (Date(StartOfClock) - 2) * 1440
          /\ result.buckets[k].end_date = (Date(StartOfClock) + 5) * 1440

\* C20: two calls with identical arguments over unchanged points return
\* identical bucket sequences.
C20_Idempotent ==
    (AggResult /\ result.repeated) => result.buckets = result.previous

\* C20 with the end of the range fixed: two calls with identical arguments
\* over unchanged points return identical bucket sequences, provided the end
\* of the range is supplied or the clock reads the same at both calls.
C20_IdempotentFixedEnd ==
    (/\ AggResult
     /\ result.repeated
     /\ (result.args[5] # Null \/ result.called_at = result.previous_at))
        => result.buckets = result.previous

\* the same explicit range asked at two different clock readings, with a
\* non-empty answer
C20_Witness ==
    /\ AggResult
    /\ result.repeated
    /\ result.args[5] # Null
    /\ result.called_at # result.previous_at
    /\ result.buckets # <<>>

(***************************************************************************)
(* Further properties of the streak.                                       *)
(***************************************************************************)
\* C30: streak_start_date is null exactly when current_streak = 0, and when
\* current_streak = k >= 1 it is the earliest day of the current run,
\* today - (k - 1).
C30_StreakStartDate ==
    (result.op = "get_checkin_streak" /\ C1_OnePerUserDay)
        => LET k == result.streak.current_streak
           IN  /\ (result.streak.streak_start_date = Null) <=> (k = 0)
               /\ k >= 1 => result.streak.streak_start_date = Date(now) - (k - 1)

(***************************************************************************)
(* Further properties of the aggregation.                                  *)
(***************************************************************************)
\* the sum of the counts of a source breakdown
RECURSIVE BreakdownTotal(_)
BreakdownTotal(S) ==
    IF S = {} THEN 0
    ELSE LET e == CHOOSE x \in S : TRUE IN e[2] + BreakdownTotal(S \ {e})

\* the sum of the counts of the buckets from position k on
RECURSIVE CountTotal(_, _)
CountTotal(buckets, k) ==
    IF k > Len(buckets) THEN 0 ELSE buckets[k].count + CountTotal(buckets, k + 1)

\* C28: in every aggregate_data result the source_breakdown counts of each
\* bucket sum to the bucket's count, and the counts of all buckets sum to the
\* number of stored points of that user and data type with a timestamp in
\* [start, end].
C28_CountsAddUp ==
    AggResult =>
        /\ \A k \in DOMAIN result.buckets :
              /\ BreakdownTotal(result.buckets[k].source_breakdown)
                    = result.buckets[k].count
              /\ \A e \in result.buckets[k].source_breakdown :
                    e[2] = Cardinality({i \in Contributing(result, result.buckets[k]) :
                                           points[i].source = e[1]})
        /\ CountTotal(result.buckets, 1) = Cardinality(PointsInRange(result))

\* a bucket of two points from two sources, next to another bucket
C28_Witness ==
    /\ AggResult
    /\ Len(result.buckets) = 2
    /\ \E k \in DOMAIN result.buckets :
          /\ result.buckets[k].count = 2
          /\ result.buckets[k].source_breakdown = {<<"Fitbit", 1>>, <<"HealthKit", 1>>}

(***************************************************************************)
(* Further properties of ingest.                                           *)
(***************************************************************************)
\* the quality score a stored point must carry for a request with score q
ExpectedQuality(q) == IF q = Null THEN DefaultQuality ELSE q

\* the items of a bulk request without an entry in the loop's error list, in
\* the order of the batch
RECURSIVE AcceptedItems(_, _)
AcceptedItems(r, i) ==
    IF i > Len(r.batch) THEN <<>>
    ELSE (IF ErrorEntries(r, i - 1) = {} THEN <<r.batch[i]>> ELSE <<>>)
         \o AcceptedItems(r, i + 1)

\* C23: every point persisted by a successful ingest or bulk ingest has
\* processed = false and the quality score the caller supplied, for every
\* supplied score in 0.0..1.0 including 0.0, and 1.0 only when the caller
\* supplied none.
C23_QualityAsSupplied ==
    [][/\ (result'.op = "ingest" /\ result'.error = NoneVal)
            => /\ Len(AddedRows) = 1
               /\ AddedRows[1].processed = FALSE
               /\ AddedRows[1].quality_score
                     = ExpectedQuality(result'.payload.quality_score)
       /\ result'.op = "bulk_ingest"
            => LET items == AcceptedItems(result', 1)
               IN  /\ Len(AddedRows) = Len(items)
                   /\ \A k \in DOMAIN AddedRows :
                         /\ AddedRows[k].processed = FALSE
                         /\ AddedRows[k].quality_score
                               = ExpectedQuality(items[k].quality_score)]_vars

\* single-point ingest of request p of user u against an explicit store: the
\* outcomes [accepted, store] that ingest_data_point can have
IngestOn(store, u, p) ==
    IF ValidateDataPoint(p) # <<>> THEN {[accepted |-> FALSE, store |-> store]}
    ELSE LET window == {i \in DOMAIN store :
                           /\ store[i].user_id = u
                           /\ store[i].data_type = p.data_type
                           /\ store[i].source = p.source
                           /\ store[i].timestamp >= TimestampOrNow(p) - DuplicateWindow
                           /\ store[i].timestamp <= TimestampOrNow(p) + DuplicateWindow}
             dups == IF window = {} THEN {FALSE}
                     ELSE {CreateDataHash(p.data_type, p.value, p.source)
                             = CreateDataHash(store[i].data_type, store[i].value,
                                              store[i].source) : i \in window}
         IN  {IF dup THEN [accepted |-> FALSE, store |-> store]
                     ELSE [accepted |-> TRUE,
                           store |-> Append(store, NewPoint(Len(store) + 1, u, p))]
              : dup \in dups}

\* single-point ingest of the items i, i + 1, ... of a batch, one after the
\* other: the outcomes [accepted, store], accepted being the set of positions
\* of the items that were stored
RECURSIVE SequentialIngest(_, _, _, _)
SequentialIngest(u, batch, i, acc) ==
    IF i > Len(batch) THEN {acc}
    ELSE UNION {SequentialIngest(u, batch, i + 1,
                    [accepted |-> IF o.accepted THEN acc.accepted \cup {i}
                                  ELSE acc.accepted,
                     store |-> o.store])
                : o \in IngestOn(acc.store, u, batch[i])}

\* C22: a bulk request accepts and rejects exactly the items, and leaves the
\* store with exactly the points, that single-point ingest of its items one
\* after the other, in the order of the batch, does; an item that duplicates
\* an earlier accepted item of the same batch is rejected.
C22_BulkAsSequential ==
    [][result'.op = "bulk_ingest" =>
        [accepted |-> {i \in DOMAIN result'.batch : ErrorEntries(result', i - 1) = {}},
         store |-> points']
           \in SequentialIngest(result'.user_id, result'.batch, 1,
                                [accepted |-> {}, store |-> points])]_vars

(***************************************************************************)
(* Properties of update_checkin.                                           *)
(***************************************************************************)
\* the stored check-ins that a request names: the id, owned by the user
Targets(r) ==
    {i \in DOMAIN checkins : /\ checkins[i].checkin_id = r.checkin_id
                             /\ checkins[i].user_id = r.user_id}

\* C25: update_checkin overwrites exactly the supplied fields of the user's
\* check-in with that id and leaves its other fields, its id, owner and
\* timestamp, and every other check-in unchanged; when no check-in with that
\* id belongs to the user it reports not-found and changes nothing.
C25_UpdateFrame ==
    [][result'.op = "update_checkin" =>
        LET r == result'
        IN  /\ DOMAIN checkins' = DOMAIN checkins
            /\ \A i \in DOMAIN checkins \ Targets(r) : checkins'[i] = checkins[i]
            /\ \A i \in Targets(r) :
                  /\ checkins'[i].checkin_id = checkins[i].checkin_id
                  /\ checkins'[i].user_id = checkins[i].user_id
                  /\ checkins'[i].timestamp = checkins[i].timestamp
                  /\ \A f \in DOMAIN checkins[i] \ DOMAIN r.data :
                        checkins'[i][f] = checkins[i][f]
            /\ (Targets(r) = {}) <=> (r.error = "RESOURCE_NOT_FOUND")
            /\ r.error # NoneVal => checkins' = checkins
            /\ r.error = NoneVal =>
                  \A i \in Targets(r) : \A f \in DOMAIN r.data :
                      checkins'[i][f] = r.data[f]]_vars

\* an update of the energy level alone, of a check-in whose mood rating an
\* earlier update had set, next to a check-in of the other user
C25_Witness ==
    /\ result.op = "update_checkin"
    /\ result.error = NoneVal
    /\ DOMAIN result.data = {"energy_level"}
    /\ \E i, j \in DOMAIN checkins :
          /\ checkins[i].checkin_id = result.checkin_id
          /\ checkins[i].mood_rating = 7
          /\ checkins[i].energy_level = 7
          /\ checkins[j].user_id # result.user_id

(***************************************************************************)
(* Properties of mark_processed.                                           *)
(***************************************************************************)
\* C24: mark_processed(ids) sets processed = true on exactly the stored
\* points whose id is in ids, returns their number (0 when no id matches),
\* changes no other field and no point outside ids, adds and removes no
\* point; a second call with the same ids leaves the store unchanged.
C24_MarkProcessedFrame ==
    [][result'.op = "mark_processed" =>
        LET ids == result'.ids
            hit == {i \in DOMAIN points : points[i].data_point_id \in ids}
        IN  /\ DOMAIN points' = DOMAIN points
            /\ result'.updated_count = Cardinality(hit)
            /\ \A i \in hit :
                  points'[i] = [points[i] EXCEPT !.processed = TRUE]
            /\ \A i \in DOMAIN points \ hit : points'[i] = points[i]
            /\ (result.op = "mark_processed" /\ result.ids = ids)
                  => points' = points]_vars

\* one of two stored points was marked, the other is still unprocessed
C24_Witness ==
    /\ result.op = "mark_processed"
    /\ result.updated_count = 1
    /\ Len(points) = 2
    /\ \E i, j \in DOMAIN points :
          /\ points[i].data_point_id \in result.ids
          /\ points[i].processed
          /\ points[j].data_point_id \notin result.ids
          /\ ~points[j].processed

(***************************************************************************)
(* Properties of the read by id.                                           *)
(***************************************************************************)
\* C29: for every stored point of user u, the read by (its id, u) returns
\* that point, however many other points u has and whatever their
\* timestamps; not-found is reported only for ids that do not exist for u.
C29_GetById ==
    result.op = "get_data_point" =>
        LET own == {i \in DOMAIN points :
                       /\ points[i].data_point_id = result.data_point_id
                       /\ points[i].user_id = result.user_id}
        IN  /\ own # {} => /\ result.error = NoneVal
                           /\ \E i \in own : result.point = points[i]
            /\ own = {} => result.error = "RESOURCE_NOT_FOUND"

(***************************************************************************)
(* Further properties of the mood analytics.                               *)
(***************************************************************************)
\* the number of check-ins of the window that carry category c
CategoryCount(u, period, c) ==
    Cardinality({i \in InWindow(u, period) : checkins[i].mood_category = c})

\* the position in timestamp order of the first check-in with category c
FirstPosition(u, period, c) ==
    LET rows == RankedRows(u, period)
    IN  CHOOSE k \in DOMAIN rows :
           /\ checkins[rows[k]].mood_category = c
           /\ \A j \in 1..(k - 1) : checkins[rows[j]].mood_category # c

\* C27: most_common_category is null when no check-in of the window has a
\* category; otherwise its number of occurrences is maximal, and among the
\* categories of maximal count it is the one that occurs first in the
\* check-ins in timestamp order.
C27_MostCommonCategory ==
    MoodResult =>
        LET u == result.user_id
            period == result.analytics.period
            names == {checkins[i].mood_category : i \in InWindow(u, period)}
                        \ {NoneVal}
            best == {c \in names : \A d \in names :
                        CategoryCount(u, period, d) <= CategoryCount(u, period, c)}
            mcc == result.analytics.most_common_category
        IN  IF names = {} THEN mcc = NoneVal
            ELSE /\ mcc \in best
                 /\ \A d \in best :
                       FirstPosition(u, period, mcc) <= FirstPosition(u, period, d)

(***************************************************************************)
(* Isolation of the users.                                                 *)
(***************************************************************************)
\* what user u can observe through the three analytics reads: the results
\* each read can return, for every period and data type (aggregate_data over
\* its default range)
ObservableBy(u) ==
    [streak |-> {StreakOf(rows) : rows \in OrderedDesc(u)},
     analytics |->
        [period \in AnalyticsPeriods |->
            UNION {{MoodAnalyticsOf(period, rows, c) : c \in MostCommonCategory(rows)}
                   : rows \in OrderedAsc(u, now - WindowDays(period) * 1440, now)}],
     aggregate |->
        [a \in DataTypes \X AggregationPeriods |->
            AggregateDataOf(u, a[1], a[2], Null, Null)]]

\* the stored rows of user u
RowsOwnedBy(u) ==
    [checkins |-> {checkins[i] : i \in CheckinsOf(u)},
     points |-> {points[i] : i \in {j \in DOMAIN points : points[j].user_id = u}}]

WriteOps == {"create_checkin", "update_checkin", "ingest", "bulk_ingest"}

\* C21: an ingest, bulk ingest, create or update issued for one user changes
\* nothing that a different user observes: the results of get_checkin_streak,
\* get_mood_analytics and aggregate_data for every other user, and the rows
\* of every other user, are after the call what they were before it.
C21_UserIsolation ==
    [][result'.op \in WriteOps =>
        \A u \in Users \ {result'.user_id} :
            /\ RowsOwnedBy(u)' = RowsOwnedBy(u)
            /\ ObservableBy(u)' = ObservableBy(u)]_vars

\* user 2 has a check-in and a point, and user 1 has just stored a point
C21_Witness ==
    /\ result.op \in {"ingest", "bulk_ingest"}
    /\ result.user_id = 1
    /\ result.error = NoneVal
    /\ RowsOwnedBy(1).points # {}
    /\ RowsOwnedBy(2).checkins # {}
    /\ RowsOwnedBy(2).points # {}

(***************************************************************************)
(* Python floats.  mood_rating, energy_level, stress_level and             *)
(* sleep_quality are Float columns and float fields of the request, so     *)
(* simple_correlation computes in IEEE 754 binary64: every operation       *)
(* returns the representable number nearest to the exact result, ties to   *)
(* the even significand.  The significand has 53 bits, more than a 32-bit  *)
(* integer of TLC holds, so naturals of any size are little-endian         *)
(* sequences of limbs and a float is sign * man * 2^exp with man of        *)
(* exactly MantDig bits.  The ratings are between 1 and 10 and their       *)
(* differences are at least 2^-53 of them, far from overflow and the       *)
(* subnormal range, so the exponent is an unbounded integer.  x ** 2 is    *)
(* the rounded product x * x and x ** 0.5 the rounded square root.         *)
(***************************************************************************)
\* the product of two limbs is within the 32-bit integers of TLC
LimbBits == 30 \div 2
LimbBase == 2^LimbBits

\* sys.float_info.mant_dig of a Python float
MantDig == 53

RECURSIVE NatTrim(_)
NatTrim(a) ==
    IF a = <<>> THEN a
    ELSE IF a[Len(a)] = 0 THEN NatTrim(SubSeq(a, 1, Len(a) - 1))
    ELSE a

RECURSIVE NatOf(_)
NatOf(i) == IF i = 0 THEN <<>> ELSE <<i % LimbBase>> \o NatOf(i \div LimbBase)

Limb(a, i) == IF 1 <= i /\ i <= Len(a) THEN a[i] ELSE 0

\* a + b: limb i receives a carry if a limb below overflows and every limb
\* between passes a carry on
NatAdd(a, b) ==
    LET n == Max(Len(a), Len(b)) + 1
        s == [i \in 1..n |-> Limb(a, i) + Limb(b, i)]
        carry(i) == IF \E j \in 1..(i - 1) :
                          /\ s[j] >= LimbBase
                          /\ \A m \in (j + 1)..(i - 1) : s[m] >= LimbBase - 1
                    THEN 1 ELSE 0
    IN  NatTrim([i \in 1..n |-> (s[i] + carry(i)) % LimbBase])

\* a - b for a >= b: limb i lends if a limb below falls short and every limb
\* between passes the loan on
NatSub(a, b) ==
    LET d == [i \in 1..Len(a) |-> Limb(a, i) - Limb(b, i)]
        borrow(i) == IF \E j \in 1..(i - 1) :
                           /\ d[j] < 0
                           /\ \A m \in (j + 1)..(i - 1) : d[m] <= 0
                     THEN 1 ELSE 0
    IN  NatTrim([i \in 1..Len(a) |-> (d[i] - borrow(i) + LimbBase) % LimbBase])

\* the sign of a - b: the highest limb in which they differ decides
NatCmp(a, b) ==
    IF Len(a) < Len(b) THEN 0 - 1
    ELSE IF Len(a) > Len(b) THEN 1
    ELSE LET differ == {i \in 1..Len(a) : a[i] # b[i]}
             top == CHOOSE i \in differ : \A j \in differ : j <= i
         IN  IF differ = {} THEN 0
             ELSE IF a[top] < b[top] THEN 0 - 1
             ELSE 1

RECURSIVE NatMulLimbFrom(_, _, _, _)
NatMulLimbFrom(a, m, i, carry) ==
    IF i > Len(a)
    THEN IF carry = 0 THEN <<>> ELSE <<carry>>
    ELSE LET p == a[i] * m + carry
         IN  <<p % LimbBase>> \o NatMulLimbFrom(a, m, i + 1, p \div LimbBase)

RECURSIVE NatMulFrom(_, _, _)
NatMulFrom(a, b, j) ==
    IF j > Len(b) THEN <<>>
    ELSE NatAdd(NatMulLimbFrom(a, b[j], 1, 0), <<0>> \o NatMulFrom(a, b, j + 1))

NatMul(a, b) == NatTrim(NatMulFrom(a, b, 1))

\* a * 2^k
NatShl(a, k) ==
    LET q == k \div LimbBits
        r == k % LimbBits
    IN  NatTrim([i \in 1..(Len(a) + q + 1) |->
                    ((Limb(a, i - q) * 2^r) % LimbBase)
                    + (Limb(a, i - q - 1) \div 2^(LimbBits - r))])

\* a \div 2^k
NatShr(a, k) ==
    LET q == k \div LimbBits
        r == k % LimbBits
        d == IF q >= Len(a) THEN <<>> ELSE SubSeq(a, q + 1, Len(a))
    IN  NatTrim([i \in 1..Len(d) |->
                    (d[i] \div 2^r) + (Limb(d, i + 1) % 2^r) * 2^(LimbBits - r)])

\* a % 2^k
NatLow(a, k) ==
    LET q == k \div LimbBits
        r == k % LimbBits
    IN  NatTrim([i \in 1..Min(Len(a), q + 1) |->
                    IF i <= q THEN a[i] ELSE a[i] % 2^r])

\* bit k of a, bit 0 the lowest
NatBit(a, k) == (Limb(a, (k \div LimbBits) + 1) \div 2^(k % LimbBits)) % 2

\* the number of bits of a
NatBits(a) ==
    IF a = <<>> THEN 0
    ELSE LimbBits * (Len(a) - 1)
         + (CHOOSE b \in 1..LimbBits : 2^(b - 1) <= a[Len(a)] /\ a[Len(a)] < 2^b)

\* long division over the bits hi, hi - 1, ..., lo of a: st holds the
\* quotient and the remainder of the bits above hi.  The range is halved, the
\* upper half is divided first, and its remainder is below b
RECURSIVE NatDivBits(_, _, _, _, _)
NatDivBits(a, b, hi, lo, st) ==
    IF hi < lo THEN st
    ELSE IF hi = lo
    THEN LET r2 == NatAdd(NatShl(st.rem, 1), NatOf(NatBit(a, hi)))
             q2 == NatShl(st.quot, 1)
         IN  IF NatCmp(r2, b) >= 0
             THEN [quot |-> NatAdd(q2, <<1>>), rem |-> NatSub(r2, b)]
             ELSE [quot |-> q2, rem |-> r2]
    ELSE LET mid == (hi + lo) \div 2
             upper == NatDivBits(a, b, hi, mid + 1, st)
         IN  IF NatCmp(upper.rem, b) < 0
             THEN NatDivBits(a, b, mid, lo, upper)
             ELSE upper

\* a \div b and a % b for b # 0
NatDivMod(a, b) == NatDivBits(a, b, NatBits(a) - 1, 0, [quot |-> <<>>, rem |-> <<>>])

\* the square root of a by the digit-by-digit method, two bits of a for one
\* bit of the root: st holds the root and the remainder of the pairs above
\* hi, and the pairs hi, hi - 1, ..., lo are taken in.  The range is halved,
\* the upper half is taken first, and its remainder is at most twice its root
RECURSIVE NatSqrtPairs(_, _, _, _)
NatSqrtPairs(a, hi, lo, st) ==
    IF hi < lo THEN st
    ELSE IF hi = lo
    THEN LET r2 == NatAdd(NatShl(st.rem, 2),
                          NatOf(2 * NatBit(a, 2 * hi + 1) + NatBit(a, 2 * hi)))
             t == NatAdd(NatShl(st.root, 2), <<1>>)
         IN  IF NatCmp(r2, t) >= 0
             THEN [root |-> NatAdd(NatShl(st.root, 1), <<1>>), rem |-> NatSub(r2, t)]
             ELSE [root |-> NatShl(st.root, 1), rem |-> r2]
    ELSE LET mid == (hi + lo) \div 2
             upper == NatSqrtPairs(a, hi, mid + 1, st)
         IN  IF NatCmp(upper.rem, NatShl(upper.root, 1)) <= 0
             THEN NatSqrtPairs(a, mid, lo, upper)
             ELSE upper

\* the largest root with root * root <= a, and rem = a - root * root
NatSqrtRem(a) ==
    NatSqrtPairs(a, (NatBits(a) - 1) \div 2, 0, [root |-> <<>>, rem |-> <<>>])

\* 0.0; the sign of a zero is not kept, -0.0 == 0.0 in every comparison
FloatZero == [sign |-> 0, man |-> <<>>, exp |-> 0]

\* the float nearest to sign * (m + f) * 2^e, ties to even, where 0 < f < 1
\* if sticky and f = 0 otherwise; m has at least MantDig + 2 bits if sticky
FloatRound(sign, m, e, sticky) ==
    IF m = <<>> THEN FloatZero
    ELSE LET bits == NatBits(m)
         IN  IF bits <= MantDig
             THEN [sign |-> sign, man |-> NatShl(m, MantDig - bits),
                   exp |-> e - (MantDig - bits)]
             ELSE LET d == bits - MantDig
                      q == NatShr(m, d)
                      c == NatCmp(NatLow(m, d), NatShl(<<1>>, d - 1))
                      up == c > 0 \/ (c = 0 /\ (sticky \/ NatBit(q, 0) = 1))
                      r == IF up THEN NatAdd(q, <<1>>) ELSE q
                  IN  IF NatBits(r) > MantDig
                      THEN [sign |-> sign, man |-> NatShr(r, 1), exp |-> e + d + 1]
                      ELSE [sign |-> sign, man |-> r, exp |-> e + d]

\* float(i) of an int
FloatOfInt(i) ==
    IF i = 0 THEN FloatZero
    ELSE IF i < 0 THEN FloatRound(0 - 1, NatOf(0 - i), 0, FALSE)
    ELSE FloatRound(1, NatOf(i), 0, FALSE)

FloatNeg(a) == [a EXCEPT !.sign = 0 - a.sign]

FloatAbs(a) == [a EXCEPT !.sign = a.sign * a.sign]

\* a + b
FloatAdd(a, b) ==
    IF a.sign = 0 THEN b
    ELSE IF b.sign = 0 THEN a
    ELSE LET e == Min(a.exp, b.exp)
             ma == NatShl(a.man, a.exp - e)
             mb == NatShl(b.man, b.exp - e)
             c == NatCmp(ma, mb)
         IN  IF a.sign = b.sign THEN FloatRound(a.sign, NatAdd(ma, mb), e, FALSE)
             ELSE IF c = 0 THEN FloatZero
             ELSE IF c > 0 THEN FloatRound(a.sign, NatSub(ma, mb), e, FALSE)
             ELSE FloatRound(b.sign, NatSub(mb, ma), e, FALSE)

\* a - b
FloatSub(a, b) == FloatAdd(a, FloatNeg(b))

\* a * b
FloatMul(a, b) ==
    IF a.sign = 0 \/ b.sign = 0 THEN FloatZero
    ELSE FloatRound(a.sign * b.sign, NatMul(a.man, b.man), a.exp + b.exp, FALSE)

\* a / b
FloatDiv(a, b) ==
    IF b.sign = 0 THEN "ZeroDivisionError"
    ELSE IF a.sign = 0 THEN FloatZero
    ELSE LET d == NatDivMod(NatShl(a.man, MantDig + 3), b.man)
         IN  FloatRound(a.sign * b.sign, d.quot, a.exp - b.exp - (MantDig + 3),
                        d.rem # <<>>)

\* a ** 0.5 for a >= 0
FloatSqrt(a) ==
    IF a.sign = 0 THEN FloatZero
    ELSE LET k == MantDig + 4 + ((a.exp + MantDig) % 2)
             s == NatSqrtRem(NatShl(a.man, k))
         IN  FloatRound(1, s.root, (a.exp - k) \div 2, s.rem # <<>>)

\* a > b
FloatGreater(a, b) == FloatSub(a, b).sign > 0

\* the float of the decimal t / 10, as the request carries it
FloatOfTenths(t) == FloatDiv(FloatOfInt(t), FloatOfInt(10))

(***************************************************************************)
(* _calculate_correlations on float ratings.                               *)
(***************************************************************************)
\* sum(xs) of an interpreter up to Python 3.11: the floats are added to the
\* int 0 from left to right
RECURSIVE FloatSumPlain(_, _)
FloatSumPlain(xs, i) ==
    IF i = 0 THEN FloatZero
    ELSE FloatAdd(FloatSumPlain(xs, i - 1), xs[i])

\* one step of Neumaier's summation once t = f_result + x is known: the
\* rounding error of that addition goes to c
NeumaierCarry(prev, x, t) ==
    [f_result |-> t,
     c |-> FloatAdd(prev.c,
                    IF FloatGreater(FloatAbs(x), FloatAbs(prev.f_result))
                    THEN FloatAdd(FloatSub(x, t), prev.f_result)
                    ELSE FloatAdd(FloatSub(prev.f_result, t), x))]

NeumaierStep(prev, x) == NeumaierCarry(prev, x, FloatAdd(prev.f_result, x))

\* sum(xs) from Python 3.12 on: Neumaier's compensated summation; c collects
\* the rounding errors of the additions and is added at the end
RECURSIVE FloatSumNeumaier(_, _)
FloatSumNeumaier(xs, i) ==
    IF i = 0 THEN [f_result |-> FloatZero, c |-> FloatZero]
    ELSE NeumaierStep(FloatSumNeumaier(xs, i - 1), xs[i])

NeumaierResult(s) == IF s.c.sign # 0 THEN FloatAdd(s.f_result, s.c) ELSE s.f_result

\* the builtin sum of the interpreter the service runs on; the repository
\* pins no Python version, so both are summations the program can run with
SumKinds == {"plain", "neumaier"}

FloatSum(xs, kind) ==
    IF Len(xs) = 0 THEN FloatZero
    ELSE IF kind = "plain" THEN FloatSumPlain(xs, Len(xs))
    ELSE NeumaierResult(FloatSumNeumaier(xs, Len(xs)))

\* x[i] - mean_x for every i, with mean_x = sum(x) / n
Deviations(x, mean_x) == [i \in 1..Len(x) |-> FloatSub(x[i], mean_x)]

\* numerator / denominator if denominator != 0 else 0.0
CorrelationQuotient(numerator, denominator) ==
    IF denominator.sign # 0 THEN FloatDiv(numerator, denominator) ELSE FloatZero

\* the correlation from the deviations dx and dy of the two series
DeviationCorrelation(dx, dy, kind) ==
    CorrelationQuotient(
        FloatSum([i \in 1..Len(dx) |-> FloatMul(dx[i], dy[i])], kind),
        FloatSqrt(FloatMul(FloatSum([i \in 1..Len(dx) |-> FloatMul(dx[i], dx[i])], kind),
                           FloatSum([i \in 1..Len(dy) |-> FloatMul(dy[i], dy[i])], kind))))

\* simple_correlation(x, y) on floats
FloatCorrelation(x, y, kind) ==
    IF Len(x) = 0 THEN FloatZero
    ELSE DeviationCorrelation(
             Deviations(x, FloatDiv(FloatSum(x, kind), FloatOfInt(Len(x)))),
             Deviations(y, FloatDiv(FloatSum(y, kind), FloatOfInt(Len(x)))),
             kind)

\* None in a Float column
NoFloat == [none |-> TRUE]

\* checkin.energy_level or 5.0 on a float
FloatOrFive(v) == IF v = NoFloat THEN FloatOfInt(5) ELSE IF v.sign = 0 THEN FloatOfInt(5) ELSE v

\* the metric each correlation of _calculate_correlations pairs the mood with
PairedMetric ==
    [mood_energy |-> "energy_level", mood_stress |-> "stress_level",
     mood_sleep |-> "sleep_quality"]

\* the three correlations that _calculate_correlations computes from float
\* ratings
FloatCorrelations(rows, kind) ==
    [c \in DOMAIN PairedMetric |->
        FloatCorrelation([i \in 1..Len(rows) |-> checkins[rows[i]].mood_rating],
                         [i \in 1..Len(rows) |->
                             FloatOrFive(checkins[rows[i]][PairedMetric[c]])],
                         kind)]

\* the literal 0.3 of the thresholds
Threshold == FloatOfTenths(3)

\* the insights of given float correlations: a set of <<key, text>>
FloatInsightsOf(correlations) ==
    (IF FloatGreater(correlations.mood_energy, Threshold)
     THEN {<<"energy", "Your mood tends to be higher when your energy levels are good">>}
     ELSE IF FloatGreater(FloatNeg(Threshold), correlations.mood_energy)
     THEN {<<"energy", "Your mood tends to be lower when your energy levels are low">>}
     ELSE {})
    \cup (IF FloatGreater(FloatNeg(Threshold), correlations.mood_stress)
          THEN {<<"stress", "Higher stress levels appear to negatively impact your mood">>}
          ELSE {})
    \cup (IF FloatGreater(correlations.mood_sleep, Threshold)
          THEN {<<"sleep", "Good sleep quality seems to positively influence your mood">>}
          ELSE {})

\* what _calculate_correlations leaves for given rows and correlations;
\* fewer than five rows give no insight
CorrelationResult(u, rows, correlations) ==
    [op |-> "calculate_correlations", user_id |-> u, rows |-> rows,
     correlations |-> correlations,
     insights |-> IF Len(rows) < 5 THEN {} ELSE FloatInsightsOf(correlations)]

\* _calculate_correlations on the check-ins of u in ascending order of
\* timestamp, as get_mood_analytics passes them, under either summation;
\* with fewer than five rows no correlation is computed
CalculateCorrelationsCall(u, kind) ==
    /\ \E rows \in AscOrders(CheckinsOf(u)) :
          result' = CorrelationResult(u, rows,
                                      IF Len(rows) < 5 THEN <<>>
                                      ELSE FloatCorrelations(rows, kind))
    /\ UNCHANGED <<now, uniqueIndex, checkins, reqs, points>>

\* the ratings of the stored histories, in tenths: whole and fractional ones
RatingTenths == {11, 14, 33, 40, 50, 60}

\* the float a column holds for a rating given in tenths
RatingFloats == [t \in RatingTenths |-> FloatOfTenths(t)]

\* a series over a history is a pair of ratings, the first on the odd
\* check-ins and the second on the even ones, or <<>> if the metric is missing
\* on every check-in
SeriesOf(series, i) ==
    IF series = <<>> THEN NoFloat
    ELSE RatingFloats[series[IF i % 2 = 1 THEN 1 ELSE 2]]

MoodSeries == {<<11, 11>>, <<14, 14>>, <<50, 50>>, <<40, 60>>}
EnergySeries == {<<>>, <<14, 14>>, <<33, 33>>, <<40, 60>>}
OtherSeries == {<<>>, <<33, 33>>}

\* user 1 has n check-ins on consecutive days up to today
FloatHistory(n, mood, energy, other) ==
    [i \in 1..n |->
        [checkin_id |-> i, user_id |-> 1,
         timestamp |-> (Date(now) - (n - i)) * 1440,
         mood_rating |-> SeriesOf(mood, i),
         mood_category |-> NoneVal,
         energy_level |-> SeriesOf(energy, i),
         stress_level |-> SeriesOf(other, i),
         sleep_quality |-> SeriesOf(other, i),
         keywords |-> <<>>]]

\* the histories of five to max check-ins; FloatHistory reads the clock
FloatHistories(max) ==
    {FloatHistory(n, mood, energy, other) :
        n \in 5..max, mood \in MoodSeries, energy \in EnergySeries,
        other \in OtherSeries}

InitCorrelation ==
    /\ now = StartOfClock + ClockStep
    /\ uniqueIndex = TRUE
    /\ checkins \in FloatHistories(MaxFloatRows)
    /\ reqs = [p \in Procs |-> [pc |-> "idle"]]
    /\ points = <<>>
    /\ result = [op |-> "init"]

NextCorrelation ==
    \E u \in Users, kind \in SumKinds : CalculateCorrelationsCall(u, kind)

SpecCorrelation == InitCorrelation /\ [][NextCorrelation]_vars

\* the series of a pair over the rows of the result
MoodData == [i \in 1..Len(result.rows) |-> checkins[result.rows[i]].mood_rating]

MetricData(f) ==
    [i \in 1..Len(result.rows) |-> FloatOrFive(checkins[result.rows[i]][f])]

\* a series in which every value is the same has zero variance
ZeroVariance(xs) == \A i, j \in 1..Len(xs) : xs[i] = xs[j]

\* the pairs of _calculate_correlations: the correlation, the metric and the
\* key of the insight
CorrelationPairs ==
    {[correlation |-> "mood_energy", metric |-> "energy_level", key |-> "energy"],
     [correlation |-> "mood_stress", metric |-> "stress_level", key |-> "stress"],
     [correlation |-> "mood_sleep", metric |-> "sleep_quality", key |-> "sleep"]}

\* C26: when one of the two series of a pair has zero variance (all mood
\* ratings equal, or a metric equal or missing and so 5.0 on every check-in),
\* the correlation of the pair is 0.0 and no insight is produced for the pair.
C26_ZeroVariance ==
    (result.op = "calculate_correlations" /\ Len(result.rows) >= 5) =>
        \A p \in CorrelationPairs :
            (ZeroVariance(MoodData) \/ ZeroVariance(MetricData(p.metric))) =>
                /\ result.correlations[p.correlation] = FloatZero
                /\ \A insight \in result.insights : insight[1] # p.key

====
